---- MODULE Spec2Model ----
(***************************************************************************)
(* http-saver: record/replay of HTTP responses for tests.                  *)
(*                                                                         *)
(* The module models                                                       *)
(*   - the Sanitizer (src/src/sanitizer.ts),                               *)
(*   - the Codec and key derivation (src/src/serdes.ts, unnamed/part_001), *)
(*   - the memoized document loader (src/src/fs.ts),                       *)
(*   - the interceptor HttpSaver (src/unnamed/part_000),                   *)
(*   - the replay response MockResponse (src/unnamed/part_004),            *)
(* as one state machine: a process holding the module-level memo of        *)
(* getJsonDataFromFile, a file system, one HttpSaver instance at a time    *)
(* and a bounded number of intercepted fetch calls that interleave at      *)
(* their await points.                                                     *)
(***************************************************************************)
EXTENDS Integers, Sequences, FiniteSets, TLC

VARIABLES
    serdes,     \* the serdes module in use: its getFileName and getKey on the requests
    mode,       \* options.mode of the current HttpSaver instance
    ready,      \* #ready has been resolved
    rmPending,  \* the constructor's rm(dirPath) has been started and has not completed
    instances,  \* number of HttpSaver instances constructed so far in this process
    dirExists,  \* options.dirPath exists on disk
    disk,       \* file name -> persisted document, or Absent
    memo,       \* memoize cache of getJsonDataFromFile: file name -> "none" | "pending" | "loaded"
    mem,        \* file name -> the in-process document object the memo resolves to
    clock,      \* source of new Date() for lastSaved
    startDisk,  \* the files of dirPath when the current instance was constructed
    calls,      \* call id -> the state of one intercepted fetch call
    responses,  \* the MockResponse objects a test has made, with their urlMap entries
    arrays,     \* the file names whose in-process document is an Array object
    arg,        \* input of a pure function under check
    out         \* its result

vars == <<serdes, responses, arrays, mode, ready, rmPending, instances, dirExists, disk, memo, mem, clock,
         startDisk,
         calls, arg, out>>

-----------------------------------------------------------------------------
(* Bounds of the model.                                                    *)

\* number of intercepted calls a test makes when it repeats one request
MaxCalls == 3
\* number of intercepted calls a test makes when it mixes all requests and modes
MaxMixedCalls == 2
\* number of intercepted calls that carry an AbortSignal
MaxSignalCalls == 1
\* number of HttpSaver instances a process constructs
MaxInstances == 2
\* number of query parameters of a URL given to the sanitizer
MaxParams == 3

-----------------------------------------------------------------------------
(* Strings of the model.  TLC cannot order strings, so the names that are  *)
(* sorted carry their rank in UTF-16 code unit order.                      *)

\* query parameter names, with their position in code unit order
\* ("APIKEY" < "a" < "auth" < "pass" < "q": upper case sorts first)
KeyRank == [APIKEY |-> 1, a |-> 2, auth |-> 3, pass |-> 4, q |-> 5]
QueryKeys == DOMAIN KeyRank
QueryValues == {"1", "2"}

\* header names as they may appear in a SerializedHeaders object
HeaderNames == {"content-type", "Content-Type", "authorization", "date", "set-cookie"}

\* String.prototype.toLowerCase on the header names of the model
toLowerCase(s) == IF s = "Content-Type" THEN "content-type" ELSE s

\* a SerializedBody of null; a Response constructed with a null body
NullBody == [kind |-> "null"]
\* a file that does not exist
Absent == [kind |-> "absent"]
\* {}
EmptyDoc == [k \in {} |-> {}]

-----------------------------------------------------------------------------
(* Sanitizer                                                               *)

\* defaultSanitizerOptions.allowedHeaders
allowedHeaders ==
    {"accept", "accept-charset", "accept-encoding", "accept-language",
     "accept-ranges", "connection", "content-disposition", "content-encoding",
     "content-language", "content-type", "host", "link", "origin", "referer",
     "transfer-encoding", "user-agent"}

\* blockedQueryParams.test(key): the names of the model that
\* /api[_\-]?key|auth|pass|secret|secur|token/i matches
blockedQueryParams(key) == key \in {"APIKEY", "auth", "pass"}

\* an insertion that puts the pair before the pairs of its own name: a sort
\* built on it is not stable
RECURSIVE InsertBeforeEqual(_, _)
InsertBeforeEqual(p, s) ==
    IF s = <<>> THEN <<p>>
    ELSE IF KeyRank[p[1]] <= KeyRank[Head(s)[1]] THEN <<p>> \o s
    ELSE <<Head(s)>> \o InsertBeforeEqual(p, Tail(s))

\* insert pair p into the sorted list s behind every pair whose name is not greater
RECURSIVE InsertSorted(_, _)
InsertSorted(p, s) ==
    IF s = <<>> THEN <<p>>
    ELSE IF KeyRank[p[1]] < KeyRank[Head(s)[1]] THEN <<p>> \o s
    ELSE <<Head(s)>> \o InsertSorted(p, Tail(s))

\* URLSearchParams.prototype.sort: stable sort of the pairs by name
RECURSIVE SortParams(_)
SortParams(s) ==
    IF s = <<>> THEN <<>>
    ELSE InsertSorted(s[Len(s)], SortParams(SubSeq(s, 1, Len(s) - 1)))

\* URLSearchParams.prototype.delete(name): drops every pair of that name
DeleteParam(s, name) == SelectSeq(s, LAMBDA p : p[1] # name)

\* for (const key of url.searchParams.keys()) { if (blocked) url.searchParams.delete(key) }
\* The iterator is live: it holds an index into the list that delete() shrinks,
\* and advances by one after every name it has yielded.
RECURSIVE DeleteBlockedFrom(_, _)
DeleteBlockedFrom(s, i) ==
    IF i > Len(s) THEN s
    ELSE IF blockedQueryParams(s[i][1])
         THEN DeleteBlockedFrom(DeleteParam(s, s[i][1]), i + 1)
         ELSE DeleteBlockedFrom(s, i + 1)

\* Sanitizer.sanitizeUrl
sanitizeUrl(url) ==
    [url EXCEPT !.params = DeleteBlockedFrom(SortParams(url.params), 1),
                !.password = ""]

\* the header filter of the earlier sanitizeRequest / sanitizeResponse, which
\* walks the keys of the Headers object it has just created, not those of the
\* message: no header is kept
sanitizeHeadersOfNewHeaders(headers) ==
    [n \in {k \in {} : toLowerCase(k) \in allowedHeaders} |-> headers[n]]

\* Sanitizer.sanitizeHeaders: keeps the entries whose lower-cased name is allowed
sanitizeHeaders(headers) ==
    [n \in {k \in DOMAIN headers : toLowerCase(k) \in allowedHeaders} |-> headers[n]]

\* Sanitizer.sanitizeRequest
sanitizeRequest(req) ==
    [method |-> req.method,
     url |-> sanitizeUrl(req.url),
     headers |-> sanitizeHeaders(req.headers),
     body |-> req.body]

\* Sanitizer.sanitizeResponse
sanitizeResponse(res, req) ==
    [status |-> res.status,
     statusText |-> res.statusText,
     url |-> res.url,
     headers |-> sanitizeHeaders(res.headers),
     body |-> res.body]

-----------------------------------------------------------------------------
(* Codec: bodies.  A body is a sequence of bytes (0..255); a decoded text   *)
(* is a sequence of code points.                                            *)

\* a thrown TypeError or SyntaxError
Invalid == [ok |-> FALSE]

\* new TextDecoder(undefined, {ignoreBOM: true, fatal: true}).decode(body):
\* [ok |-> TRUE, v |-> the code points], or Invalid when the bytes are not UTF-8.
\* One- and two-byte forms are decoded; every other lead byte of the model's
\* alphabet is invalid.
RECURSIVE Utf8Decode(_)
Utf8Decode(b) ==
    IF b = <<>> THEN [ok |-> TRUE, v |-> <<>>]
    ELSE IF b[1] < 128 THEN
        LET rest == Utf8Decode(Tail(b))
        IN  IF ~rest.ok THEN Invalid ELSE [ok |-> TRUE, v |-> <<b[1]>> \o rest.v]
    ELSE IF b[1] >= 194 /\ b[1] <= 223 /\ Len(b) >= 2 /\ b[2] >= 128 /\ b[2] <= 191 THEN
        LET rest == Utf8Decode(SubSeq(b, 3, Len(b)))
        IN  IF ~rest.ok THEN Invalid
            ELSE [ok |-> TRUE, v |-> <<(b[1] - 192) * 64 + (b[2] - 128)>> \o rest.v]
    ELSE Invalid

\* new TextEncoder().encode(str)
RECURSIVE Utf8Encode(_)
Utf8Encode(str) ==
    IF str = <<>> THEN <<>>
    ELSE IF str[1] < 128 THEN <<str[1]>> \o Utf8Encode(Tail(str))
    ELSE <<192 + (str[1] \div 64), 128 + (str[1] % 64)>> \o Utf8Encode(Tail(str))

IsJsonWhitespace(c) == c \in {9, 10, 13, 32}
IsDigit(c) == c >= 48 /\ c <= 57

RECURSIVE TrimLeft(_)
TrimLeft(str) ==
    IF str # <<>> /\ IsJsonWhitespace(str[1]) THEN TrimLeft(Tail(str)) ELSE str

RECURSIVE TrimRight(_)
TrimRight(str) ==
    IF str # <<>> /\ IsJsonWhitespace(str[Len(str)])
    THEN TrimRight(SubSeq(str, 1, Len(str) - 1)) ELSE str

RECURSIVE DigitsValue(_)
DigitsValue(str) ==
    IF str = <<>> THEN 0
    ELSE DigitsValue(SubSeq(str, 1, Len(str) - 1)) * 10 + (str[Len(str)] - 48)

\* s without its first n elements
Drop(s, n) == SubSeq(s, n + 1, Len(s))

StartsWith(s, p) == Len(s) >= Len(p) /\ SubSeq(s, 1, Len(p)) = p

\* JSON values: [num |-> n], [str |-> code points], [lit |-> "true", "false" or
\* "null"], [arr |-> values], [obj |-> <<key, value>> pairs in the order of the
\* object's own properties]

\* a property name that is an array index: the canonical text of an integer
\* below 2^32 - 1
IsArrayIndex(k) ==
    /\ k # <<>>
    /\ Len(k) <= 9
    /\ \A i \in 1..Len(k) : IsDigit(k[i])
    /\ Len(k) = 1 \/ k[1] # 48

HasProperty(entries, k) == \E i \in 1..Len(entries) : entries[i][1] = k

\* the place of a new array-index property: before the first property that is
\* not an array index or is a greater one
IndexPlace(entries, k) ==
    LET later == {i \in 1..Len(entries) :
                     \/ ~IsArrayIndex(entries[i][1])
                     \/ DigitsValue(entries[i][1]) > DigitsValue(k)}
    IN  IF later = {} THEN Len(entries) + 1
        ELSE CHOOSE i \in later : \A j \in later : i <= j

\* CreateDataProperty(object, k, v): an existing property keeps its place; a new
\* one goes behind the others, except that array indices come first, ascending
SetProperty(entries, k, v) ==
    IF HasProperty(entries, k)
    THEN [i \in 1..Len(entries) |->
             IF entries[i][1] = k THEN <<k, v>> ELSE entries[i]]
    ELSE IF IsArrayIndex(k)
    THEN LET at == IndexPlace(entries, k)
         IN  SubSeq(entries, 1, at - 1) \o <<<<k, v>>>> \o Drop(entries, at - 1)
    ELSE Append(entries, <<k, v>>)

\* the string token that starts behind an opening quote: up to the next quote.
\* The texts of the model have no backslash.
ParseString(s) ==
    LET quotes == {i \in 1..Len(s) : s[i] = 34}
    IN  IF quotes = {} THEN Invalid
        ELSE LET q == CHOOSE i \in quotes : \A j \in quotes : i <= j
             IN  IF \E i \in 1..(q - 1) : s[i] < 32 \/ s[i] = 92 THEN Invalid
                 ELSE [ok |-> TRUE, v |-> [str |-> SubSeq(s, 1, q - 1)],
                       rest |-> Drop(s, q)]

\* the number token at the head of s: "0", or digits without a leading zero.
\* The texts of the model have no sign, fraction or exponent.
ParseNumber(s) ==
    LET stops == {i \in 1..Len(s) : ~IsDigit(s[i])}
        run == IF stops = {} THEN Len(s)
               ELSE (CHOOSE i \in stops : \A j \in stops : i <= j) - 1
        n == IF s[1] = 48 THEN 1 ELSE run
    IN  [ok |-> TRUE, v |-> [num |-> DigitsValue(SubSeq(s, 1, n))], rest |-> Drop(s, n)]

RECURSIVE ParseValue(_), ParseElements(_, _), ParseMembers(_, _)

\* a JSON value at the head of s0, behind optional whitespace
ParseValue(s0) ==
    LET s == TrimLeft(s0)
    IN  IF s = <<>> THEN Invalid
        ELSE IF s[1] = 123 THEN
            LET t == TrimLeft(Tail(s))
            IN  IF t # <<>> /\ t[1] = 125
                THEN [ok |-> TRUE, v |-> [obj |-> <<>>], rest |-> Tail(t)]
                ELSE ParseMembers(t, <<>>)
        ELSE IF s[1] = 91 THEN
            LET t == TrimLeft(Tail(s))
            IN  IF t # <<>> /\ t[1] = 93
                THEN [ok |-> TRUE, v |-> [arr |-> <<>>], rest |-> Tail(t)]
                ELSE ParseElements(t, <<>>)
        ELSE IF s[1] = 34 THEN ParseString(Tail(s))
        ELSE IF IsDigit(s[1]) THEN ParseNumber(s)
        ELSE IF StartsWith(s, <<116, 114, 117, 101>>)
            THEN [ok |-> TRUE, v |-> [lit |-> "true"], rest |-> Drop(s, 4)]
        ELSE IF StartsWith(s, <<102, 97, 108, 115, 101>>)
            THEN [ok |-> TRUE, v |-> [lit |-> "false"], rest |-> Drop(s, 5)]
        ELSE IF StartsWith(s, <<110, 117, 108, 108>>)
            THEN [ok |-> TRUE, v |-> [lit |-> "null"], rest |-> Drop(s, 4)]
        ELSE Invalid

\* the elements of an array behind "[", acc those parsed so far
ParseElements(s, acc) ==
    LET v == ParseValue(s)
    IN  IF ~v.ok THEN Invalid
        ELSE LET t == TrimLeft(v.rest)
             IN  IF t = <<>> THEN Invalid
                 ELSE IF t[1] = 44 THEN ParseElements(Tail(t), Append(acc, v.v))
                 ELSE IF t[1] = 93
                     THEN [ok |-> TRUE, v |-> [arr |-> Append(acc, v.v)], rest |-> Tail(t)]
                 ELSE Invalid

\* the members of an object behind "{", acc the properties defined so far
ParseMembers(s, acc) ==
    IF s = <<>> \/ s[1] # 34 THEN Invalid
    ELSE LET k == ParseString(Tail(s))
         IN  IF ~k.ok THEN Invalid
             ELSE LET t == TrimLeft(k.rest)
                  IN  IF t = <<>> \/ t[1] # 58 THEN Invalid
                      ELSE LET v == ParseValue(Tail(t))
                           IN  IF ~v.ok THEN Invalid
                               ELSE LET u == TrimLeft(v.rest)
                                        now == SetProperty(acc, k.v.str, v.v)
                                    IN  IF u = <<>> THEN Invalid
                                        ELSE IF u[1] = 44
                                            THEN ParseMembers(TrimLeft(Tail(u)), now)
                                        ELSE IF u[1] = 125
                                            THEN [ok |-> TRUE, v |-> [obj |-> now],
                                                  rest |-> Tail(u)]
                                        ELSE Invalid

\* JSON.parse(str): [ok |-> TRUE, v |-> the value], or Invalid for a SyntaxError
JsonParse(str) ==
    LET r == ParseValue(str)
    IN  IF r.ok /\ TrimLeft(r.rest) = <<>> THEN [ok |-> TRUE, v |-> r.v] ELSE Invalid

RECURSIVE NumberToString(_)
NumberToString(n) ==
    IF n < 10 THEN <<48 + n>> ELSE NumberToString(n \div 10) \o <<48 + (n % 10)>>

\* the text of a literal
LiteralText(name) ==
    IF name = "true" THEN <<116, 114, 117, 101>>
    ELSE IF name = "false" THEN <<102, 97, 108, 115, 101>>
    ELSE <<110, 117, 108, 108>>

\* a string between quotes; the strings of the model need no escape
Quoted(str) == <<34>> \o str \o <<34>>

RECURSIVE JsonStringify(_), StringifyElements(_), StringifyMembers(_)

\* JSON.stringify(data) for a JSON value, without indentation
JsonStringify(data) ==
    IF "num" \in DOMAIN data THEN NumberToString(data.num)
    ELSE IF "str" \in DOMAIN data THEN Quoted(data.str)
    ELSE IF "lit" \in DOMAIN data THEN LiteralText(data.lit)
    ELSE IF "arr" \in DOMAIN data THEN <<91>> \o StringifyElements(data.arr) \o <<93>>
    ELSE <<123>> \o StringifyMembers(data.obj) \o <<125>>

StringifyElements(vs) ==
    IF vs = <<>> THEN <<>>
    ELSE IF Len(vs) = 1 THEN JsonStringify(vs[1])
    ELSE JsonStringify(vs[1]) \o <<44>> \o StringifyElements(Tail(vs))

StringifyMembers(es) ==
    IF es = <<>> THEN <<>>
    ELSE LET one == Quoted(es[1][1]) \o <<58>> \o JsonStringify(es[1][2])
         IN  IF Len(es) = 1 THEN one ELSE one \o <<44>> \o StringifyMembers(Tail(es))

\* encodeBase64: every three bytes become four sextets (0..63); 64 stands for the
\* padding character '='
RECURSIVE encodeBase64(_)
encodeBase64(b) ==
    IF b = <<>> THEN <<>>
    ELSE IF Len(b) = 1 THEN <<b[1] \div 4, (b[1] % 4) * 16, 64, 64>>
    ELSE IF Len(b) = 2 THEN
        <<b[1] \div 4, (b[1] % 4) * 16 + (b[2] \div 16), (b[2] % 16) * 4, 64>>
    ELSE <<b[1] \div 4, (b[1] % 4) * 16 + (b[2] \div 16),
           (b[2] % 16) * 4 + (b[3] \div 64), b[3] % 64>>
         \o encodeBase64(SubSeq(b, 4, Len(b)))

RECURSIVE decodeBase64(_)
decodeBase64(s) ==
    IF Len(s) < 4 THEN <<>>
    ELSE (IF s[3] = 64 THEN <<s[1] * 4 + (s[2] \div 16)>>
          ELSE IF s[4] = 64 THEN
              <<s[1] * 4 + (s[2] \div 16), (s[2] % 16) * 16 + (s[3] \div 4)>>
          ELSE <<s[1] * 4 + (s[2] \div 16), (s[2] % 16) * 16 + (s[3] \div 4),
                 (s[3] % 4) * 64 + s[4]>>)
         \o decodeBase64(SubSeq(s, 5, Len(s)))

\* a serializeBody that does not try JSON.parse: every decodable body is a text
serializeBodyWithoutJson(body) ==
    IF Len(body) = 0 THEN NullBody
    ELSE LET str == Utf8Decode(body)
         IN  IF ~str.ok THEN [kind |-> "base64", data |-> encodeBase64(body)]
             ELSE [kind |-> "text", data |-> str.v]

\* serializeBody(body), body the bytes of arrayBuffer()
serializeBody(body) ==
    IF Len(body) = 0 THEN NullBody
    ELSE LET str == Utf8Decode(body)
         IN  IF ~str.ok THEN [kind |-> "base64", data |-> encodeBase64(body)]
             ELSE IF JsonParse(str.v).ok THEN [kind |-> "json", data |-> JsonParse(str.v).v]
             ELSE [kind |-> "text", data |-> str.v]

\* deserializeBody: [kind |-> "bytes", data |-> the Uint8Array], or NullBody
deserializeBody(body) ==
    IF body = NullBody THEN NullBody
    ELSE IF body.kind = "base64" THEN [kind |-> "bytes", data |-> decodeBase64(body.data)]
    ELSE IF body.kind = "text" THEN [kind |-> "bytes", data |-> Utf8Encode(body.data)]
    ELSE [kind |-> "bytes", data |-> Utf8Encode(JsonStringify(body.data))]

-----------------------------------------------------------------------------
(* Codec: headers.  A Headers object is a function from lower-case name to  *)
(* the non-empty sequence of the values appended under it.                  *)

RECURSIVE JoinValues(_)
JoinValues(vs) ==
    IF Len(vs) = 1 THEN vs[1] ELSE vs[1] \o ", " \o JoinValues(Tail(vs))

\* asArray
asArray(x) == IF "a" \in DOMAIN x THEN x.a ELSE <<x.s>>

\* serializeHeaders: headers.entries() yields a name once with its values joined
\* by ", ", except set-cookie, which it yields once per value; a name seen again
\* turns the entry into an array ([a |-> values]), a name seen once is a string
\* ([s |-> value]).  out is a plain object: out[key] = value with the key
\* "__proto__" and a string runs the setter of Object.prototype, which ignores
\* a value that is no object, so no entry is made for that name.
serializeHeaders(headers) ==
    [n \in DOMAIN headers \ {"__proto__"} |->
        IF n = "set-cookie" /\ Len(headers[n]) > 1
        THEN [a |-> headers[n]]
        ELSE [s |-> JoinValues(headers[n])]]

\* deserializeHeaders: one append per element of an array, one for a string
deserializeHeaders(headers) ==
    [n \in {toLowerCase(k) : k \in DOMAIN headers} |->
        IF n \in DOMAIN headers THEN asArray(headers[n])
        ELSE asArray(headers[CHOOSE k \in DOMAIN headers : toLowerCase(k) = n])]

-----------------------------------------------------------------------------
(* Codec: requests and responses                                           *)

\* serializeRequest
serializeRequest(req) ==
    [method |-> req.method,
     url |-> req.url,
     headers |-> serializeHeaders(req.headers),
     body |-> serializeBody(req.body)]

\* serializeResponse
serializeResponse(res) ==
    [status |-> res.status,
     statusText |-> res.statusText,
     headers |-> serializeHeaders(res.headers),
     body |-> serializeBody(res.body),
     url |-> res.url]

\* deserializeResponse(serialized, signal): the MockResponse.  hasSignal says
\* that a signal was passed.  guarded: the body is the readable side of the
\* TransformStream whose transform() throws signal.reason when the signal is
\* aborted at the time a chunk passes.
deserializeResponse(serialized, hasSignal) ==
    [status |-> serialized.status,
     statusText |-> serialized.statusText,
     headers |-> deserializeHeaders(serialized.headers),
     body |-> deserializeBody(serialized.body),
     guarded |-> deserializeBody(serialized.body) # NullBody /\ hasSignal,
     url |-> serialized.url]

\* getFileName, one file per host: `${encodeURIComponent(new URL(req.url).host)}.json`;
\* the model names a file by the segments of its path under dirPath
getFileName(req) == <<req.url.host>>

\* the printable characters of ASCII from the space (32) to the underscore (95),
\* and from a (97) to the tilde (126)
AsciiLow ==
    " !\"#$%&'()*+,-./0123456789:;<=>?@ABCDEFGHIJKLMNOPQRSTUVWXYZ[\\]^_"
AsciiHigh == "abcdefghijklmnopqrstuvwxyz{|}~"

\* the code point of a character of the model
CharCode(ch) ==
    IF \E n \in 1..Len(AsciiLow) : SubSeq(AsciiLow, n, n) = ch
    THEN 31 + (CHOOSE n \in 1..Len(AsciiLow) : SubSeq(AsciiLow, n, n) = ch)
    ELSE 96 + (CHOOSE n \in 1..Len(AsciiHigh) : SubSeq(AsciiHigh, n, n) = ch)

\* the code points of a string of the model
CodePoints(s) == [i \in 1..Len(s) |-> CharCode(SubSeq(s, i, i))]

\* a < b for two strings, as JavaScript compares them: by code units, a proper
\* prefix first
RECURSIVE StringLess(_, _)
StringLess(a, b) ==
    IF b = <<>> THEN FALSE
    ELSE IF a = <<>> THEN TRUE
    ELSE IF a[1] # b[1] THEN a[1] < b[1]
    ELSE StringLess(Tail(a), Tail(b))

\* the comparator of the sort: a > b ? 1 : a < b ? -1 : 0
CompareKeys(a, b) == IF StringLess(b, a) THEN 1 ELSE IF StringLess(a, b) THEN -1 ELSE 0

\* entries.sort(([a], [b]) => ...): a stable sort by the comparator
RECURSIVE SortEntries(_)
SortEntries(entries) ==
    IF entries = <<>> THEN <<>>
    ELSE LET sorted == SortEntries(Tail(entries))
             before == {i \in 1..Len(sorted) :
                           CompareKeys(sorted[i][1], entries[1][1]) < 0}
             n == Cardinality(before)
         IN  SubSeq(sorted, 1, n) \o <<entries[1]>> \o Drop(sorted, n)

\* a variant of Object.fromEntries whose object keeps the order of the entries
fromEntriesInOrder(entries) == entries

\* Object.fromEntries(entries): the properties are created one by one, so the
\* object has them in own-property order
RECURSIVE fromEntries(_)
fromEntries(entries) ==
    IF entries = <<>> THEN <<>>
    ELSE LET rest == fromEntries(SubSeq(entries, 1, Len(entries) - 1))
             last == entries[Len(entries)]
         IN  SetProperty(rest, last[1], last[2])

\* what JSON.stringify walks when the replacer of jsonStringifyDeterministically
\* is applied to every value: an object that is no array is replaced by the
\* object made of its sorted entries, and the walk goes on in the replacement
RECURSIVE Replaced(_)
Replaced(value) ==
    IF "obj" \in DOMAIN value
    THEN LET sorted == fromEntries(SortEntries(value.obj))
         IN  [obj |-> [i \in 1..Len(sorted) |-> <<sorted[i][1], Replaced(sorted[i][2])>>]]
    ELSE IF "arr" \in DOMAIN value
    THEN [arr |-> [i \in 1..Len(value.arr) |-> Replaced(value.arr[i])]]
    ELSE value

\* jsonStringifyDeterministically(obj): JSON.stringify(obj, replacer)
jsonStringifyDeterministically(obj) == JsonStringify(Replaced(obj))

\* new URL(req.url).href for the URLs of the model
Href(url) ==
    LET userinfo ==
            IF url.username = "" /\ url.password = "" THEN ""
            ELSE url.username \o (IF url.password = "" THEN "" ELSE ":" \o url.password)
                 \o "@"
        Pair(kv) == CodePoints(kv[1]) \o <<61>> \o CodePoints(kv[2])
        Query[i \in 0..Len(url.params)] ==
            IF i = 0 THEN <<>>
            ELSE Query[i - 1] \o <<IF i = 1 THEN 63 ELSE 38>> \o Pair(url.params[i])
    IN  CodePoints("https://" \o userinfo \o url.host \o url.pathname)
        \o Query[Len(url.params)]

\* the characters of the base64 alphabet, for the sextets 0..63 and the padding
Base64Chars == "ABCDEFGHIJKLMNOPQRSTUVWXYZabcdefghijklmnopqrstuvwxyz0123456789+/="

JsonString(s) == [str |-> CodePoints(s)]

\* the names of a SerializedHeaders object in the order of headers.entries(),
\* which is sorted by name
RECURSIVE HeaderEntries(_)
HeaderEntries(headers) ==
    IF DOMAIN headers = {} THEN <<>>
    ELSE LET n == CHOOSE m \in DOMAIN headers :
                      \A k \in DOMAIN headers : ~StringLess(CodePoints(k), CodePoints(m))
             v == IF "a" \in DOMAIN headers[n]
                  THEN [arr |-> [i \in 1..Len(headers[n].a) |-> JsonString(headers[n].a[i])]]
                  ELSE JsonString(headers[n].s)
         IN  <<<<CodePoints(n), v>>>>
             \o HeaderEntries([k \in DOMAIN headers \ {n} |-> headers[k]])

\* a SerializedBody as a JSON value
BodyJson(body) ==
    IF body = NullBody THEN [lit |-> "null"]
    ELSE [obj |-> <<<<CodePoints("kind"), JsonString(body.kind)>>,
                    <<CodePoints("data"),
                      IF body.kind = "json" THEN body.data
                      ELSE IF body.kind = "text" THEN [str |-> body.data]
                      ELSE [str |-> [i \in 1..Len(body.data) |->
                                       CodePoints(Base64Chars)[body.data[i] + 1]]]>>>>]

\* a SerializedRequest as the object that JSON.stringify is given: method, url,
\* headers and body, in the order of the literal of serializeRequest
RequestJson(req) ==
    [obj |-> <<<<CodePoints("method"), JsonString(req.method)>>,
               <<CodePoints("url"), [str |-> Href(req.url)]>>,
               <<CodePoints("headers"), [obj |-> HeaderEntries(req.headers)]>>,
               <<CodePoints("body"), BodyJson(req.body)>>>>]

\* the digest of a text.  SHA-256 is out of reach of the model: polynomial
\* digests of the code points modulo three primes stand for it, and that equal
\* digests come from equal texts is checked on the texts of the model, not
\* assumed.  PolyDigest gives <<digest, 31^Len(text)>> modulo p.
RECURSIVE PolyDigest(_, _)
PolyDigest(text, p) ==
    IF Len(text) = 0 THEN <<0, 1>>
    ELSE IF Len(text) = 1 THEN <<text[1] % p, 31>>
    ELSE LET half == Len(text) \div 2
             a == PolyDigest(SubSeq(text, 1, half), p)
             b == PolyDigest(Drop(text, half), p)
         IN  <<(a[1] * b[2] + b[1]) % p, (a[2] * b[2]) % p>>

Sha256Hex(text) ==
    <<"sha256", PolyDigest(text, 32749)[1], PolyDigest(text, 32719)[1],
      PolyDigest(text, 32717)[1]>>

\* getKey, one key per request: hex SHA-256 of the canonical text
getKey(req) == Sha256Hex(jsonStringifyDeterministically(RequestJson(req)))

\* getFileName, one file per request:
\* `${encodeURIComponent(host)}/${hex SHA-256 of the canonical text}.json`
getFileNameHashed(req) ==
    <<req.url.host, Sha256Hex(jsonStringifyDeterministically(RequestJson(req)))>>

\* getKey, one key for every request
getKeyData(req) == "data"

\* the two serdes modules of the repository
Layouts == {"perHost", "perRequest"}

-----------------------------------------------------------------------------
(* The environment: the requests the test makes and the answers of the     *)
(* network.                                                                *)

Url(username, password, host, pathname, params) ==
    [username |-> username, password |-> password, host |-> host,
     pathname |-> pathname, params |-> params]

NoHeaders == [n \in {} |-> <<>>]

\* new Request(input, init) for the inputs of the model
Requests ==
    [Ra |-> [method |-> "GET",
             url |-> Url("", "", "example.com", "/",
                        << <<"q", "1">>, <<"pass", "1">>, <<"auth", "1">> >>),
             headers |-> [authorization |-> <<"Basic x">>],
             body |-> <<>>],
     Rc |-> [method |-> "POST",
             url |-> Url("", "", "example.com", "/todos", <<>>),
             headers |-> [n \in {"content-type"} |-> <<"text/plain">>],
             body |-> <<97>>],
     Rd |-> [method |-> "GET",
             url |-> Url("", "", "other.org", "/", <<>>),
             headers |-> NoHeaders,
             body |-> <<>>]]

RequestNames == DOMAIN Requests


\* what the network may answer to a request: a text that parses as JSON with
\* insignificant whitespace and headers outside the allow-list, or an empty body
LiveAnswers ==
    {[status |-> 200, statusText |-> "OK",
      headers |-> [n \in {"content-type", "date", "set-cookie"} |->
                      IF n = "content-type" THEN <<"text/plain">>
                      ELSE IF n = "date" THEN <<"now">> ELSE <<"a=1", "b=2">>],
      body |-> <<32, 49>>],
     [status |-> 404, statusText |-> "Not Found",
      headers |-> [n \in {"date"} |-> <<"now">>],
      body |-> <<>>]}

\* the Response of fetch(req): the answer, with the request's URL
LiveResponse(answer, req) ==
    [status |-> answer.status, statusText |-> answer.statusText,
     headers |-> answer.headers, body |-> answer.body, url |-> req.url]

NoResponse == [status |-> 0]

-----------------------------------------------------------------------------
(* HttpSaver                                                               *)

Modes == {"ensure", "overwrite", "readOnly", "reset"}

CallIds == 1..MaxCalls

\* the serializedRequest, key and file of a call (stubFetch, lines 106-113),
\* tabulated for the requests of the model
SerializedRequestTable ==
    [r \in RequestNames |-> sanitizeRequest(serializeRequest(Requests[r]))]
KeyTable == [r \in RequestNames |-> getKey(SerializedRequestTable[r])]
FileTable == [r \in RequestNames |-> getFileName(SerializedRequestTable[r])]
KeyTableData == [r \in RequestNames |-> getKeyData(SerializedRequestTable[r])]
FileTableHashed == [r \in RequestNames |-> getFileNameHashed(SerializedRequestTable[r])]
SerializedRequestOf(r) == SerializedRequestTable[r]

\* the serdes module with one file per host and one key per request, and the
\* one with one file per request and one key
SerdesPerHost == [layout |-> "perHost", getFileName |-> FileTable, getKey |-> KeyTable]
SerdesPerRequest ==
    [layout |-> "perRequest", getFileName |-> FileTableHashed, getKey |-> KeyTableData]

KeyOf(r) == serdes.getKey[r]
FileOf(r) == serdes.getFileName[r]

\* the cache files of the model: one per host, one per request
AllFileNames ==
    {FileTable[r] : r \in RequestNames} \cup {FileTableHashed[r] : r \in RequestNames}
FileNames == DOMAIN disk

\* the directory that file f is in exists: dirPath for a file per host, a
\* directory under dirPath for a file per request; such a directory exists
\* when it holds a file
ParentExists(f) ==
    /\ dirExists
    /\ Len(f) = 2 => \E g \in FileNames : Len(g) = 2 /\ g[1] = f[1] /\ disk[g] # Absent

\* the content writeFile leaves: JSON.stringify(resInfo, null, jsonSpace) + '\n'
FileText(doc) == [kind |-> "json", doc |-> doc, space |-> "\t", newline |-> TRUE]

\* a variant of the upsert that leaves the new record alone in the document
UpsertAlone(doc, key, record) == [k \in {key} |-> record]

\* a variant of the upsert that keeps a record the document already has
UpsertKeepingOld(doc, key, record) ==
    [k \in DOMAIN doc \cup {key} |-> IF k \in DOMAIN doc THEN doc[k] ELSE record]

\* resInfo[key] = record
Upsert(doc, key, record) ==
    [k \in DOMAIN doc \cup {key} |-> IF k = key THEN record ELSE doc[k]]

\* a record left by an earlier run of the test suite: Ra's, with an answer that
\* the network of this run no longer gives
OldRecord ==
    [lastSaved |-> 0,
     request |-> SerializedRequestOf("Ra"),
     response |-> sanitizeResponse(
         serializeResponse(
             [status |-> 200, statusText |-> "OK",
              headers |-> [n \in {"content-type"} |-> <<"text/plain">>],
              body |-> <<97>>, url |-> Requests["Ra"].url]),
         serializeRequest(Requests["Ra"]))]

\* a file whose content is the text "hi"
CorruptText == [kind |-> "text", text |-> <<104, 105>>]

\* the cache directory before the process starts: missing, or holding that record
InitialDisks ==
    {[f \in AllFileNames |-> Absent],
     [f \in AllFileNames |->
        IF f = FileOf("Ra") THEN FileText(Upsert(EmptyDoc, KeyOf("Ra"), OldRecord))
        ELSE Absent]}

\* a cache directory that holds a file that is no JSON text where Ra's file is
\* to be
CorruptDisks ==
    {[f \in AllFileNames |-> IF f = FileOf("Ra") THEN CorruptText ELSE Absent]}

\* texts that are no cache document: hi, null, 12 and []
DamagedTexts == {<<104, 105>>, <<110, 117, 108, 108>>, <<49, 50>>, <<91, 93>>}

\* a cache directory in which Ra's file holds one of these texts
DamagedDisks ==
    {[f \in AllFileNames |->
         IF f = FileOf("Ra") THEN [kind |-> "text", text |-> t] ELSE Absent] :
     t \in DamagedTexts}

NoOutcome == [kind |-> "none"]
Failure(name) == [kind |-> "error", error |-> name]
Returned(res) == [kind |-> "response", res |-> res]

\* the I/O operations a call has issued, by kind
NoIo == [fetch |-> 0, readFile |-> 0, mkdir |-> 0, writeFile |-> 0]

\* a call that has not been made.  after: the calls that had completed when this
\* one was made; inst: the instance whose stub it runs; pre: its signal was
\* aborted when it was made; given: what the caller passed as input ("url",
\* "string" or "request"); inputBody: the body of the Request object that the
\* caller passed ("none": no Request object, or one without a body)
IdleCall ==
    [pc |-> "idle", input |-> "Ra", given |-> "string", inputBody |-> "none",
     sig |-> "none", aborted |-> FALSE,
     pre |-> FALSE, inst |-> 0, after |-> {},
     mode |-> "none", mkdirPending |-> FALSE, fetched |-> FALSE,
     res |-> NoResponse, text |-> Absent, io |-> NoIo,
     outcome |-> NoOutcome, body |-> "none"]

NoArg == [kind |-> "none"]

\* new HttpSaver({mode}): a 'reset' instance starts rm(dirPath) and resolves
\* #ready when it completes, any other instance resolves #ready at once
ConstructorStartsRm(m) == m = "reset"

\* a process with one HttpSaver of any mode whose directory is one of disks
InitOn(l, disks) ==
    /\ serdes = IF l = "perHost" THEN SerdesPerHost ELSE SerdesPerRequest
    /\ mode \in Modes
    /\ ready = ~ConstructorStartsRm(mode)
    /\ rmPending = ConstructorStartsRm(mode)
    /\ instances = 1
    /\ disk \in disks
    /\ dirExists = (\E f \in FileNames : disk[f] # Absent)
    /\ memo = [f \in FileNames |-> "none"]
    /\ mem = [f \in FileNames |-> EmptyDoc]
    /\ clock = 1
    /\ startDisk = disk
    /\ calls = [c \in CallIds |-> IdleCall]
    /\ responses = <<>>
    /\ arrays = {}
    /\ arg = NoArg
    /\ out = NoArg

InitWith(l, corrupt) == InitOn(l, IF corrupt THEN CorruptDisks ELSE InitialDisks)

\* the serdes module with one file per host
Init == InitWith("perHost", FALSE)

\* the continuation of `await getJsonDataFromFile(filePath)` in #read is queued
\* for some call: the promise it awaits is resolved.  A queued continuation runs
\* before the event loop delivers the completion of any I/O operation.
ReadRunnable ==
    \E c \in CallIds :
        calls[c].pc = "readWait" /\ memo[FileOf(calls[c].input)] = "loaded"

\* rm(opts.dirPath, {recursive: true, force: true}) completes; ready.then resolves #ready
RmDone ==
    /\ rmPending
    /\ ~ReadRunnable
    /\ rmPending' = FALSE
    /\ dirExists' = FALSE
    /\ disk' = [f \in FileNames |-> Absent]
    /\ ready' = TRUE
    /\ UNCHANGED <<serdes, responses, arrays, mode, instances, memo, mem, clock, calls, arg, out, startDisk>>

\* the process constructs another HttpSaver on the same dirPath, between tests:
\* new HttpSaver({mode: m})
Construct(m) ==
    /\ instances < MaxInstances
    /\ ~rmPending
    /\ \A c \in CallIds : calls[c].pc \in {"idle", "done"} /\ ~calls[c].mkdirPending
    /\ \A f \in FileNames : memo[f] # "pending"
    /\ mode' = m
    /\ instances' = instances + 1
    /\ ready' = ~ConstructorStartsRm(m)
    /\ rmPending' = ConstructorStartsRm(m)
    /\ startDisk' = disk
    /\ UNCHANGED <<serdes, responses, arrays, dirExists, disk, memo, mem, clock, calls, arg, out>>

\* what a caller may pass as input: a URL object, a string, a Request object
Givens == {"url", "string", "request"}

\* the body of the Request object that a caller passes for request r
GivenBody(r, given) ==
    IF given = "request" /\ Requests[r].body # <<>> THEN "unread" ELSE "none"

\* the test calls fetch(input, init): the stub runs up to `await this.#ready.promise`
\* sig: where the call's AbortSignal is ("init": init.signal, "input": the
\* signal of the Request passed as input); pre: it is already aborted
StartWith(c, r, sig, pre, given) ==
    /\ calls[c].pc = "idle"
    /\ \A d \in CallIds : d < c => calls[d].pc # "idle"
    /\ sig = "none" => ~pre
    /\ sig = "input" => given = "request"
    /\ calls' = [calls EXCEPT ![c] =
                    [@ EXCEPT !.pc = "gate", !.input = r, !.sig = sig, !.aborted = pre,
                              !.given = given, !.inputBody = GivenBody(r, given),
                              !.pre = pre, !.inst = instances,
                              !.after = {d \in CallIds : calls[d].pc = "done"}]]
    /\ UNCHANGED <<serdes, responses, arrays, mode, ready, rmPending, instances, dirExists, disk, memo, mem, clock, arg, out, startDisk>>

\* a call whose input is a string, or the Request object that carries the signal
Start(c, r, sig, pre) ==
    StartWith(c, r, sig, pre, IF sig = "input" THEN "request" ELSE "string")

\* a variant in which the replayed body listens to the signal and errors its
\* stream on abort, whatever has become of the body
AfterAbortErroringBody(call) ==
    [call EXCEPT !.aborted = TRUE,
                 !.body = IF call.outcome.kind = "response" /\ call.outcome.res.guarded
                          THEN "errored" ELSE @]

\* what an abort of its signal does to a call: signal.aborted becomes true, and
\* nothing of the replayed response listens to the signal (the transform looks
\* at signal.aborted when a chunk passes)
AfterAbort(call) == [call EXCEPT !.aborted = TRUE]

\* controller.abort() on the call's signal
Abort(c) ==
    /\ calls[c].pc # "idle"
    /\ calls[c].sig # "none"
    /\ ~calls[c].aborted
    /\ calls' = [calls EXCEPT ![c] = AfterAbort(@)]
    /\ UNCHANGED <<serdes, responses, arrays, mode, ready, rmPending, instances, dirExists, disk, memo, mem, clock, arg, out, startDisk>>

\* getJsonDataFromFile(filePath) is called: memoize starts readFile unless the
\* path has an entry
MemoAfterCall(f) == [memo EXCEPT ![f] = IF @ = "none" THEN "pending" ELSE @]
StartsReadFile(f) == memo[f] = "none"
IoAfterLoadCall(io, f) ==
    IF StartsReadFile(f) THEN [io EXCEPT !.readFile = @ + 1] ELSE io

\* a variant of stubFetch without the check of the signal
NeverAbortedAtEntry(call) == FALSE

\* `signal?.aborted` of stubFetch, line 103-104: signal is init?.signal
AbortedAtEntry(call) == call.sig = "init" /\ call.aborted

\* a variant of #read that creates the directory before it looks the key up
EnterReadMakingDir(call, m) ==
    [call EXCEPT !.pc = "readWait", !.mode = m, !.mkdirPending = TRUE,
                 !.io = IoAfterLoadCall([@ EXCEPT !.mkdir = @ + 1], FileOf(call.input))]

\* the call enters #read: getJsonDataFromFile(filePath)
EnterRead(call, m) ==
    [call EXCEPT !.pc = "readWait", !.mode = m,
                 !.io = IoAfterLoadCall(@, FileOf(call.input))]

\* a variant of #overwrite that makes no live call of its own
EnterOverwriteWithoutFetch(call, m) ==
    [call EXCEPT !.pc = "owWait", !.mode = m, !.mkdirPending = TRUE,
                 !.io = IoAfterLoadCall([@ EXCEPT !.mkdir = @ + 1], FileOf(call.input))]

\* the call enters #overwrite: Promise.all([mkdir, #realFetch(req.clone()), getJsonDataFromFile])
EnterOverwrite(call, m) ==
    [call EXCEPT !.pc = "owWait", !.mode = m, !.mkdirPending = TRUE,
                 !.io = IoAfterLoadCall([@ EXCEPT !.mkdir = @ + 1, !.fetch = @ + 1],
                                        FileOf(call.input))]

\* a variant of stubFetch that takes the path of ensure mode whatever options.mode is
DispatchAsEnsure(call, m) == EnterRead(call, "ensure")

\* the switch of stubFetch on options.mode
Dispatch(call, m) ==
    IF m = "overwrite" THEN EnterOverwrite(call, m) ELSE EnterRead(call, m)

\* new Request(input, init), init without a body: when input is a Request
\* object with a body, the new Request takes that body over and leaves the
\* input's body used (the Request constructor of the Fetch standard: the body
\* of the new object is a proxy for the body of input)
NewRequest(call) ==
    [call EXCEPT !.inputBody = IF @ = "unread" THEN "taken" ELSE @]

\* #ready is resolved: the stub runs from line 101 to the first await of #read or #overwrite
PassGate(c) ==
    /\ calls[c].pc = "gate"
    /\ ready
    /\ IF AbortedAtEntry(calls[c])
       THEN /\ calls' = [calls EXCEPT ![c] =
                            [NewRequest(@) EXCEPT !.pc = "done",
                                                  !.outcome = Failure("AbortError")]]
            /\ memo' = memo
       ELSE /\ calls' = [calls EXCEPT ![c] = Dispatch(NewRequest(@), mode)]
            /\ memo' = MemoAfterCall(FileOf(calls[c].input))
    /\ UNCHANGED <<serdes, responses, arrays, mode, ready, rmPending, instances, dirExists, disk, mem, clock, arg, out, startDisk>>

\* a rejected promise
Rejected(name) == [ok |-> FALSE, error |-> name]

\* typeof data === 'object' && data != null
IsObjectType(data) == "obj" \in DOMAIN data \/ "arr" \in DOMAIN data

\* the function that getJsonDataFromFile memoizes, on what filePath holds: a
\* missing file (ENOENT) gives {}, a file that readFile cannot read rejects
\* with the error of readFile, a text is parsed and asserted to be an object.
\* [kind |-> "json"] is a text that #overwrite wrote: it parses to its document.
getJsonDataFromFile(content) ==
    IF content = Absent THEN [ok |-> TRUE, v |-> EmptyDoc]
    ELSE IF content.kind = "unreadable" THEN Rejected(content.error)
    ELSE IF content.kind = "json" THEN [ok |-> TRUE, v |-> content.doc]
    ELSE LET data == JsonParse(content.text)
         IN  IF ~data.ok THEN Rejected("SyntaxError")
             ELSE IF ~IsObjectType(data.v) THEN Rejected("AssertionError")
             ELSE [ok |-> TRUE, v |-> data.v]

\* data is an Array object
IsArray(content, data) == content.kind = "text" /\ "arr" \in DOMAIN data

\* the own properties of what getJsonDataFromFile resolved to that a key of a
\* request can name: the records of a document; none for an array, whose own
\* properties are its indices and length, and none for the object of a text
\* of the model
OwnProperties(content, data) ==
    IF content # Absent /\ content.kind = "text" THEN EmptyDoc ELSE data

\* the document a file gives; none when the load fails
LoadedDoc(content) ==
    IF getJsonDataFromFile(content).ok
    THEN OwnProperties(content, getJsonDataFromFile(content).v)
    ELSE EmptyDoc

\* a variant of the catch that goes on to #overwrite in every mode
FallsThroughAlways(m) == TRUE

\* the catch of stubFetch, lines 122-127: a CacheMissError in ensure and reset
\* mode goes on to #overwrite
FallsThrough(m) == m \in {"ensure", "reset"}

\* a variant of the catch that goes on to #overwrite whatever was thrown
CatchesAnyError(m, error) == FallsThrough(m)

\* `e instanceof CacheMissError` in the catch: what #read throws goes on to
\* #overwrite only when it is a CacheMissError
Catches(m, error) == FallsThrough(m) /\ error = "CacheMissError"

\* the calls that await the memoized promise of file f
AwaitingLoad(f) ==
    {c \in CallIds : calls[c].pc \in {"readWait", "owWait"} /\ FileOf(calls[c].input) = f}

\* the calls among them whose catch goes on to #overwrite
Retrying(f, error) ==
    {c \in AwaitingLoad(f) : calls[c].pc = "readWait" /\ Catches(calls[c].mode, error)}

\* readFile completes.  A rejection leaves no entry in the memo and reaches
\* every call that awaits the promise: #read throws it to the catch of
\* stubFetch, Promise.all of #overwrite rejects with it.
LoadDone(f) ==
    LET loaded == getJsonDataFromFile(disk[f])
        retry == IF loaded.ok THEN {} ELSE Retrying(f, loaded.error)
    IN  /\ memo[f] = "pending"
        /\ ~ReadRunnable
        /\ IF loaded.ok
           THEN /\ memo' = [memo EXCEPT ![f] = "loaded"]
                /\ mem' = [mem EXCEPT ![f] = OwnProperties(disk[f], loaded.v)]
                /\ arrays' = IF disk[f] # Absent /\ IsArray(disk[f], loaded.v)
                             THEN arrays \cup {f} ELSE arrays
                /\ calls' = calls
           ELSE /\ memo' = [memo EXCEPT ![f] = IF retry = {} THEN "none" ELSE "pending"]
                /\ mem' = mem
                /\ arrays' = arrays
                /\ calls' = [c \in CallIds |->
                      IF c \in retry
                      THEN [calls[c] EXCEPT !.pc = "owWait", !.mkdirPending = TRUE,
                              !.io = [@ EXCEPT !.mkdir = @ + 1, !.fetch = @ + 1,
                                               !.readFile = @ + 1]]
                      ELSE IF c \in AwaitingLoad(f)
                      THEN [calls[c] EXCEPT !.pc = "done",
                                            !.outcome = Failure(loaded.error)]
                      ELSE calls[c]]
        /\ UNCHANGED <<serdes, responses, mode, ready, rmPending, instances, dirExists, disk, clock, arg, out, startDisk>>

\* #read resumes with resInfo
ReadResume(c) ==
    LET call == calls[c]
        f == FileOf(call.input)
        key == KeyOf(call.input)
    IN  /\ call.pc = "readWait"
        /\ memo[f] = "loaded"
        /\ calls' = [calls EXCEPT ![c] =
              IF key \in DOMAIN mem[f]
              THEN [call EXCEPT !.pc = "done", !.body = "unread",
                       !.outcome = Returned(deserializeResponse(mem[f][key].response,
                                                                call.sig = "init"))]
              ELSE IF Catches(call.mode, "CacheMissError")
              THEN EnterOverwrite(call, call.mode)
              ELSE [call EXCEPT !.pc = "done", !.outcome = Failure("CacheMissError")]]
        /\ UNCHANGED <<serdes, responses, arrays, mode, ready, rmPending, instances, dirExists, disk, memo, mem, clock, arg, out, startDisk>>

\* mkdir(this.options.dirPath, {recursive: true}) completes
MkdirDone(c) ==
    /\ calls[c].mkdirPending
    /\ ~ReadRunnable
    /\ dirExists' = TRUE
    /\ calls' = [calls EXCEPT ![c].mkdirPending = FALSE]
    /\ UNCHANGED <<serdes, responses, arrays, mode, ready, rmPending, instances, disk, memo, mem, clock, arg, out, startDisk>>

\* the signal of req = new Request(input, init) is aborted: the live fetch
\* rejects, and the body of a live response that has arrived is errored when
\* serializeResponse reads it
\* a variant in which the abort of any call's signal reaches every call
AnyRequestAborted(call) == \E d \in CallIds : calls[d].sig # "none" /\ calls[d].aborted

RequestAborted(call) == call.sig # "none" /\ call.aborted

\* this.#realFetch(req.clone()) settles: req carries the call's signal, so an
\* aborted signal rejects it, and with it Promise.all
FetchDone(c, answer) ==
    LET call == calls[c]
    IN  /\ call.pc = "owWait"
        /\ ~call.fetched
        /\ ~ReadRunnable
        /\ calls' = [calls EXCEPT ![c] =
              IF RequestAborted(call)
              THEN [call EXCEPT !.pc = "done", !.outcome = Failure("AbortError")]
              ELSE [call EXCEPT !.fetched = TRUE,
                                !.res = LiveResponse(answer, Requests[call.input])]]
        /\ UNCHANGED <<serdes, responses, arrays, mode, ready, rmPending, instances, dirExists, disk, memo, mem, clock, arg, out, startDisk>>

\* a variant in which the error of the live call is replaced by another
NetworkFailureWrapped(call) ==
    [call EXCEPT !.pc = "done", !.outcome = Failure("Error")]

\* the rejection of Promise.all at line 152 by the error of the live call (a
\* TypeError of fetch) ends #overwrite and, through `return this.#overwrite`
\* at line 125, stubFetch
NetworkFailure(call) ==
    [call EXCEPT !.pc = "done", !.outcome = Failure("TypeError")]

\* this.#realFetch(req.clone()) rejects: the network call has failed
FetchFails(c) ==
    LET call == calls[c]
    IN  /\ call.pc = "owWait"
        /\ ~call.fetched
        /\ ~ReadRunnable
        /\ ~RequestAborted(call)
        /\ calls' = [calls EXCEPT ![c] = NetworkFailure(call)]
        /\ UNCHANGED <<serdes, responses, arrays, mode, ready, rmPending, instances, dirExists, disk, memo, mem, clock, arg, out, startDisk>>

\* the record #overwrite stores, lines 158-167
NewRecord(call, now) ==
    [lastSaved |-> now,
     request |-> SerializedRequestOf(call.input),
     response |-> sanitizeResponse(serializeResponse(call.res),
                                   serializeRequest(Requests[call.input]))]

\* Promise.all has resolved and the body of the live response has arrived or
\* failed: #overwrite runs from line 158 to `await writeFile`
\* a variant that saves the new record alone
SavedTextOfRecord(doc, key) == FileText([k \in {key} |-> doc[k]])

\* the text handed to writeFile, line 169: the whole document as it is when
\* the call upserts
SavedText(doc, key) == FileText(doc)

\* a variant in which every call works on a document of its own, read from the
\* file as it is when the call stores its record
resInfoFromFile(f) == LoadedDoc(disk[f])

\* resInfo of #overwrite, line 155: what the memoized getJsonDataFromFile
\* resolved to, one object shared by every call on the path
resInfo(f) == mem[f]

\* JSON.stringify of an Array object gives its elements and none of its other
\* properties: "[]" and the line feed for the arrays of the model, which have
\* no elements
ArrayText == [kind |-> "text", text |-> <<91, 93, 10>>]

OverwriteResume(c) ==
    LET call == calls[c]
        f == FileOf(call.input)
        doc == Upsert(resInfo(f), KeyOf(call.input), NewRecord(call, clock))
    IN  /\ call.pc = "owWait"
        /\ call.fetched
        /\ ~call.mkdirPending
        /\ memo[f] = "loaded"
        /\ ~ReadRunnable
        /\ IF RequestAborted(call)
           THEN /\ calls' = [calls EXCEPT ![c] =
                      [call EXCEPT !.pc = "done", !.outcome = Failure("AbortError")]]
                /\ UNCHANGED <<mem, clock>>
           ELSE /\ mem' = [mem EXCEPT ![f] = doc]
                /\ clock' = clock + 1
                /\ calls' = [calls EXCEPT ![c] =
                      [call EXCEPT !.pc = "writeWait",
                                   !.text = IF f \in arrays THEN ArrayText
                                            ELSE SavedText(doc, KeyOf(call.input)),
                                   !.io = [@ EXCEPT !.writeFile = @ + 1]]]
        /\ UNCHANGED <<serdes, responses, arrays, mode, ready, rmPending, instances, dirExists, disk, memo, arg, out, startDisk>>

\* a variant of #overwrite that returns the Response of the live call as it came
OverwriteResultLive(call) ==
    [status |-> call.res.status,
     statusText |-> call.res.statusText,
     headers |-> call.res.headers,
     body |-> IF call.res.body = <<>> THEN NullBody
              ELSE [kind |-> "bytes", data |-> call.res.body],
     guarded |-> FALSE,
     url |-> call.res.url]

\* what #overwrite returns, line 171
OverwriteResult(call) ==
    deserializeResponse(mem[FileOf(call.input)][KeyOf(call.input)].response,
                        call.sig = "init")

\* writeFile(filePath, text) completes: ENOENT when the directory is missing
WriteDone(c) ==
    LET call == calls[c]
        f == FileOf(call.input)
    IN  /\ call.pc = "writeWait"
        /\ ~ReadRunnable
        /\ IF ParentExists(f)
           THEN /\ disk' = [disk EXCEPT ![f] = call.text]
                /\ calls' = [calls EXCEPT ![c] =
                      [call EXCEPT !.pc = "done", !.body = "unread",
                                   !.outcome = Returned(OverwriteResult(call))]]
           ELSE /\ disk' = disk
                /\ calls' = [calls EXCEPT ![c] =
                      [call EXCEPT !.pc = "done", !.outcome = Failure("ENOENT")]]
        /\ UNCHANGED <<serdes, responses, arrays, mode, ready, rmPending, instances, dirExists, memo, mem, clock, arg, out, startDisk>>

\* a variant of the body that never looks at the signal
BodyAfterReadUnguarded(res, aborted) == "read"

\* the body of the returned response after a read: a guarded body whose signal
\* is aborted when the chunk passes transform() is errored with signal.reason
BodyAfterRead(res, aborted) ==
    IF res.guarded /\ aborted THEN "errored" ELSE "read"

\* the test reads the body of the response it got: res.bytes()
ReadBody(c) ==
    /\ calls[c].pc = "done"
    /\ calls[c].body = "unread"
    /\ calls' = [calls EXCEPT ![c].body = BodyAfterRead(calls[c].outcome.res, calls[c].aborted)]
    /\ UNCHANGED <<serdes, responses, arrays, mode, ready, rmPending, instances, dirExists, disk, memo, mem, clock, arg, out, startDisk>>

\* the test cancels the body: res.body.cancel()
CancelBody(c) ==
    /\ calls[c].pc = "done"
    /\ calls[c].body = "unread"
    /\ calls[c].outcome.res.body # NullBody
    /\ calls' = [calls EXCEPT ![c].body = "cancelled"]
    /\ UNCHANGED <<serdes, responses, arrays, mode, ready, rmPending, instances, dirExists, disk, memo, mem, clock, arg, out, startDisk>>

\* the steps of the calls that are not a decision of the test
CallStep ==
    \/ \E c \in CallIds : PassGate(c)
    \/ \E f \in FileNames : LoadDone(f)
    \/ \E c \in CallIds : ReadResume(c)
    \/ \E c \in CallIds : MkdirDone(c)
    \/ \E c \in CallIds, answer \in LiveAnswers : FetchDone(c, answer)
    \/ \E c \in CallIds : OverwriteResume(c)
    \/ \E c \in CallIds : WriteDone(c)

\* a test that mixes the requests, passes no signal and leaves the bodies alone
Next ==
    \/ RmDone
    \/ CallStep
    \/ \E c \in 1..MaxMixedCalls, r \in RequestNames : Start(c, r, "none", FALSE)

\* one process, one HttpSaver in any mode, on an empty or a filled directory
Spec == Init /\ [][Next]_vars

\* number of intercepted calls of a test whose network may fail
MaxNetworkCalls == 2

\* a test on one host whose live calls may fail
NextNetwork ==
    \/ RmDone
    \/ CallStep
    \/ \E c \in 1..MaxNetworkCalls, r \in {"Ra", "Rc"} : Start(c, r, "none", FALSE)
    \/ \E c \in 1..MaxNetworkCalls : FetchFails(c)

SpecNetwork == Init /\ [][NextNetwork]_vars

\* number of intercepted calls of a test that runs while the constructor's rm is pending
MaxReadyCalls == 2

\* rm(opts.dirPath, {recursive: true, force: true}) rejects (the directory
\* cannot be removed): the callback of ready.then is not run, so nothing
\* resolves #ready
RmFails ==
    /\ rmPending
    /\ ~ReadRunnable
    /\ rmPending' = FALSE
    /\ UNCHANGED <<serdes, responses, arrays, mode, ready, instances, dirExists, disk, memo, mem, clock, calls, arg, out, startDisk>>

\* a test on one host whose constructor's rm may fail
NextReady ==
    \/ RmDone
    \/ RmFails
    \/ CallStep
    \/ \E c \in 1..MaxReadyCalls, r \in {"Ra", "Rc"} : Start(c, r, "none", FALSE)

\* the same, where every I/O operation that was started settles and every
\* continuation that is queued runs: the event loop does not stop while the
\* promise a call awaits can be settled
SpecReady ==
    /\ Init
    /\ [][NextReady]_vars
    /\ WF_vars(RmDone \/ RmFails)
    /\ WF_vars(CallStep)
    /\ \A c \in 1..MaxReadyCalls : WF_vars(PassGate(c))

\* number of intercepted calls of a test whose directory cannot always be written
MaxStorageCalls == 2

\* mkdir(this.options.dirPath, {recursive: true}) rejects: Promise.all at line
\* 152 rejects with its error, before resInfo[key] is assigned
MkdirFails(c) ==
    /\ calls[c].pc = "owWait"
    /\ calls[c].mkdirPending
    /\ ~ReadRunnable
    /\ calls' = [calls EXCEPT ![c] =
          [@ EXCEPT !.pc = "done", !.mkdirPending = FALSE, !.outcome = Failure("EACCES")]]
    /\ UNCHANGED <<serdes, responses, arrays, mode, ready, rmPending, instances, dirExists, disk, memo, mem, clock, arg, out, startDisk>>

\* writeFile(filePath, text) rejects: #overwrite ends with its error, after
\* resInfo[key] was assigned at line 163
WriteFails(c) ==
    /\ calls[c].pc = "writeWait"
    /\ ~ReadRunnable
    /\ calls' = [calls EXCEPT ![c] =
          [@ EXCEPT !.pc = "done", !.outcome = Failure("EACCES")]]
    /\ UNCHANGED <<serdes, responses, arrays, mode, ready, rmPending, instances, dirExists, disk, memo, mem, clock, arg, out, startDisk>>

\* a test on one host whose mkdir and writeFile may fail
NextStorage ==
    \/ RmDone
    \/ CallStep
    \/ \E c \in 1..MaxStorageCalls, r \in {"Ra", "Rc"} : Start(c, r, "none", FALSE)
    \/ \E c \in 1..MaxStorageCalls : MkdirFails(c)
    \/ \E c \in 1..MaxStorageCalls : WriteFails(c)

SpecStorage == Init /\ [][NextStorage]_vars

\* number of intercepted calls of a test that passes URLs, strings and Request objects
MaxCallerCalls == 2

\* a test that passes its requests as URL objects, strings or Request objects
NextCaller ==
    \/ RmDone
    \/ CallStep
    \/ \E c \in 1..MaxCallerCalls, r \in {"Ra", "Rc"}, given \in Givens :
          StartWith(c, r, "none", FALSE, given)

SpecCaller == Init /\ [][NextCaller]_vars

\* an 'ensure' instance on an empty directory
InitEnsure ==
    /\ Init
    /\ mode = "ensure"
    /\ \A f \in FileNames : disk[f] = Absent

\* a test that repeats one request
NextEnsure ==
    \/ CallStep
    \/ \E c \in CallIds : Start(c, "Ra", "none", FALSE)

SpecEnsure == InitEnsure /\ [][NextEnsure]_vars

\* the calls that carry an AbortSignal: those after the first call
SignalCallIds == 2..(1 + MaxSignalCalls)

\* a test that makes a call, then calls with signals, aborts them and consumes
\* the bodies of their responses
NextSignal ==
    \/ RmDone
    \/ CallStep
    \/ Start(1, "Ra", "none", FALSE)
    \/ \E c \in SignalCallIds, pre \in BOOLEAN : Start(c, "Ra", "init", pre)
    \/ \E c \in SignalCallIds : Abort(c)
    \/ \E c \in SignalCallIds : ReadBody(c)
    \/ \E c \in SignalCallIds : CancelBody(c)

SpecSignal == Init /\ [][NextSignal]_vars

\* a test that makes a call, then calls whose input is a Request object that
\* carries an AbortSignal (init has none), aborts them and consumes the bodies
\* of their responses
NextInputSignal ==
    \/ RmDone
    \/ CallStep
    \/ Start(1, "Ra", "none", FALSE)
    \/ \E c \in SignalCallIds, pre \in BOOLEAN : Start(c, "Ra", "input", pre)
    \/ \E c \in SignalCallIds : Abort(c)
    \/ \E c \in SignalCallIds : ReadBody(c)
    \/ \E c \in SignalCallIds : CancelBody(c)

SpecInputSignal == Init /\ [][NextInputSignal]_vars

\* the test assigns httpSaver.options.mode = m between two calls
SetMode(m) ==
    /\ m # mode
    /\ \A c \in CallIds : calls[c].pc \in {"idle", "done"}
    /\ mode' = m
    /\ UNCHANGED <<serdes, responses, arrays, ready, rmPending, instances, dirExists, disk, memo, mem, clock, calls, arg, out, startDisk>>

\* a test that mixes the requests and reassigns options.mode between its calls
NextModes ==
    \/ Next
    \/ \E m \in Modes : SetMode(m)

SpecModes == Init /\ [][NextModes]_vars

\* one process that constructs HttpSaver instances one after the other
NextProcess ==
    \/ Next
    \/ \E m \in Modes : Construct(m)

SpecProcess == Init /\ [][NextProcess]_vars

\* a cache directory with a file that cannot be loaded
InitCorrupt == InitWith("perHost", TRUE)

\* one process, one HttpSaver in any mode, on a corrupt cache file
SpecCorrupt == InitCorrupt /\ [][Next]_vars

\* a cache directory whose file for Ra is no cache document
InitDamaged == InitOn("perHost", DamagedDisks)

\* one process, one HttpSaver in any mode, on a file that is no cache document
SpecDamaged == InitDamaged /\ [][Next]_vars

\* the serdes module with one file per request, under a directory per host
InitHashed == InitWith("perRequest", FALSE)

\* one process, one HttpSaver in any mode, with one file per request
SpecHashed == InitHashed /\ [][Next]_vars

-----------------------------------------------------------------------------
(* The pure functions, applied to inputs drawn from bounded sets.           *)

RECURSIVE SeqsUpTo(_, _)
SeqsUpTo(S, n) ==
    IF n = 0 THEN {<<>>}
    ELSE LET shorter == SeqsUpTo(S, n - 1)
         IN  shorter \cup {Append(q, x) : q \in {t \in shorter : Len(t) = n - 1}, x \in S}

\* the URLs given to the sanitizer
UrlInputs ==
    {Url(u, pw, "example.com", "/", q) :
        u \in {"", "user"}, pw \in {"", "pw"},
        q \in SeqsUpTo(QueryKeys \X QueryValues, MaxParams)}

\* no HttpSaver call is made: the state of the process stays as constructed
InitQuiet ==
    /\ serdes = SerdesPerHost
    /\ mode = "ensure"
    /\ ready = TRUE
    /\ rmPending = FALSE
    /\ instances = 1
    /\ disk = [f \in AllFileNames |-> Absent]
    /\ dirExists = FALSE
    /\ memo = [f \in FileNames |-> "none"]
    /\ mem = [f \in FileNames |-> EmptyDoc]
    /\ clock = 1
    /\ startDisk = disk
    /\ calls = [c \in CallIds |-> IdleCall]
    /\ responses = <<>>
    /\ arrays = {}
    /\ out = NoArg

InitSanitizer ==
    /\ InitQuiet
    /\ arg \in {[kind |-> "url", v |-> u] : u \in UrlInputs}

\* sanitizer.sanitizeUrl(url)
ApplySanitizeUrl ==
    /\ arg.kind = "url"
    /\ out = NoArg
    /\ out' = [kind |-> "url", v |-> sanitizeUrl(arg.v)]
    /\ UNCHANGED <<serdes, responses, arrays, mode, ready, rmPending, instances, dirExists, disk, memo, mem, clock,
                   startDisk, calls, arg>>

NextSanitizer == ApplySanitizeUrl

SpecSanitizer == InitSanitizer /\ [][NextSanitizer]_vars

\* the longest text drawn from LoadAlphabet
MaxTextLen == 3

\* the code points of { } [ ] 1 " and the space
LoadAlphabet == {123, 125, 91, 93, 49, 34, 32}

RECURSIVE TextsUpTo(_)
TextsUpTo(n) ==
    IF n = 0 THEN {<<>>}
    ELSE TextsUpTo(n - 1)
         \cup {Append(t, ch) : t \in {u \in TextsUpTo(n - 1) : Len(u) = n - 1},
                               ch \in LoadAlphabet}

\* the file contents of the test of getJsonDataFromFile and a few more:
\* hello world, "hello world", {"a":1}, null, true, 12
SampleTexts ==
    {<<104, 101, 108, 108, 111, 32, 119, 111, 114, 108, 100>>,
     <<34, 104, 101, 108, 108, 111, 32, 119, 111, 114, 108, 100, 34>>,
     <<123, 34, 97, 34, 58, 49, 125>>,
     <<110, 117, 108, 108>>, <<116, 114, 117, 101>>, <<49, 50>>}

\* what a path can hold: nothing, a file that readFile cannot read, a text
FileContents ==
    {Absent}
    \cup {[kind |-> "unreadable", error |-> e] : e \in {"PermissionDenied", "EISDIR"}}
    \cup {[kind |-> "text", text |-> t] : t \in TextsUpTo(MaxTextLen) \cup SampleTexts}

InitLoad ==
    /\ InitQuiet
    /\ arg \in {[kind |-> "content", v |-> content] : content \in FileContents}

\* getJsonDataFromFile(filePath) on a path that holds arg.v
ApplyGetJsonDataFromFile ==
    /\ arg.kind = "content"
    /\ out = NoArg
    /\ out' = [kind |-> "loaded", v |-> getJsonDataFromFile(arg.v)]
    /\ UNCHANGED <<serdes, responses, arrays, mode, ready, rmPending, instances, dirExists, disk, memo, mem, clock,
                   startDisk, calls, arg>>

NextLoad == ApplyGetJsonDataFromFile

\* getJsonDataFromFile on every content of a file
SpecLoad == InitLoad /\ [][NextLoad]_vars

\* requests that differ in method, host, path, query, a header that the
\* sanitizer keeps, a header that it drops, and body
RequestInputs ==
    {[method |-> m, url |-> Url("", "", h, path, q), headers |-> hs, body |-> b] :
        m \in {"GET", "POST"},
        h \in {"example.com", "other.org"},
        path \in {"/", "/path"},
        q \in {<<>>, << <<"a", "1">> >>},
        hs \in {NoHeaders, [n \in {"accept"} |-> <<"a">>], [n \in {"accept"} |-> <<"b">>],
                [n \in {"authorization"} |-> <<"Basic x">>]},
        b \in {<<>>, <<97>>}}

\* the requests of the tests of getFileName and getKey: https://example.com,
\* with a path, with a query, with a header, as a POST with a body
TestedRequests ==
    {[method |-> "GET", url |-> Url("", "", "example.com", "/", <<>>),
      headers |-> NoHeaders, body |-> <<>>],
     [method |-> "POST", url |-> Url("", "", "example.com", "/", <<>>),
      headers |-> [n \in {"accept"} |-> <<"a">>], body |-> <<97>>]}

InitSerdes ==
    /\ InitQuiet
    /\ arg \in {[kind |-> "requests", v |-> <<r1, r2>>, serdes |-> sd] :
                    r1 \in TestedRequests, r2 \in RequestInputs,
                    sd \in {SerdesPerHost.layout, SerdesPerRequest.layout}}

\* what stubFetch derives from a request, lines 106-111: the sanitized
\* serialized request, its file name and its key
Derived(req, sd) ==
    LET serializedRequest == sanitizeRequest(serializeRequest(req))
    IN  [serializedRequest |-> serializedRequest,
         fileName |-> IF sd = "perHost" THEN getFileName(serializedRequest)
                      ELSE getFileNameHashed(serializedRequest),
         key |-> IF sd = "perHost" THEN getKey(serializedRequest)
                 ELSE getKeyData(serializedRequest)]

\* getFileName and getKey on the sanitized serialized forms of two requests
ApplyGetFileNameAndKey ==
    /\ arg.kind = "requests"
    /\ out = NoArg
    /\ out' = [kind |-> "derived", v |-> <<Derived(arg.v[1], arg.serdes),
                                          Derived(arg.v[2], arg.serdes)>>]
    /\ UNCHANGED <<serdes, responses, arrays, mode, ready, rmPending, instances, dirExists, disk, memo, mem,
                   clock, startDisk, calls, arg>>

NextSerdes == ApplyGetFileNameAndKey

\* getFileName and getKey of either serdes module on pairs of requests
SpecSerdes == InitSerdes /\ [][NextSerdes]_vars

\* the most members of the outer object given to jsonStringifyDeterministically
MaxMembers == 2

\* the keys b, a, 10 and 9
CanonKeys == {<<98>>, <<97>>, <<49, 48>>, <<57>>}

\* {b:1,a:2}
ObjectBA == [obj |-> <<<<<<98>>, [num |-> 1]>>, <<<<97>>, [num |-> 2]>>>>]

\* the values of the members: numbers, the object, arrays
MemberValues ==
    {[num |-> 1], [num |-> 2], ObjectBA,
     [arr |-> <<ObjectBA, [num |-> 3]>>], [arr |-> <<[num |-> 2], [num |-> 1]>>]}

\* the sequences of up to n members with different keys
RECURSIVE MembersUpTo(_)
MembersUpTo(n) ==
    IF n = 0 THEN {<<>>}
    ELSE MembersUpTo(n - 1)
         \cup {Append(es, <<k, v>>) :
                 es \in {e \in MembersUpTo(n - 1) : Len(e) = n - 1},
                 k \in CanonKeys, v \in MemberValues}

HasDistinctKeys(es) == \A i, j \in 1..Len(es) : i # j => es[i][1] # es[j][1]

CanonInputs == {[obj |-> es] : es \in {e \in MembersUpTo(MaxMembers) : HasDistinctKeys(e)}}

\* the orders in which the elements of a sequence can be put
RECURSIVE Perms(_)
Perms(seq) ==
    IF seq = <<>> THEN {<<>>}
    ELSE UNION {{<<seq[i]>> \o rest :
                    rest \in Perms(SubSeq(seq, 1, i - 1) \o Drop(seq, i))} :
                i \in 1..Len(seq)}

\* the values that are equal to a value up to the order of the keys of its
\* objects, at any depth; the elements of arrays stay where they are
RECURSIVE Reorderings(_), MemberChoices(_), ElementChoices(_)
Reorderings(value) ==
    IF "obj" \in DOMAIN value
    THEN {[obj |-> es] : es \in UNION {MemberChoices(p) : p \in Perms(value.obj)}}
    ELSE IF "arr" \in DOMAIN value
    THEN {[arr |-> vs] : vs \in ElementChoices(value.arr)}
    ELSE {value}

MemberChoices(es) ==
    IF es = <<>> THEN {<<>>}
    ELSE {<<<<es[1][1], v>>>> \o rest :
             v \in Reorderings(es[1][2]), rest \in MemberChoices(Tail(es))}

ElementChoices(vs) ==
    IF vs = <<>> THEN {<<>>}
    ELSE {<<v>> \o rest : v \in Reorderings(vs[1]), rest \in ElementChoices(Tail(vs))}

InitCanonical ==
    /\ InitQuiet
    /\ \E v \in CanonInputs :
          \E w \in Reorderings(v) : arg = [kind |-> "values", v |-> v, w |-> w]

\* jsonStringifyDeterministically on a value and on a reordering of it
ApplyJsonStringifyDeterministically ==
    /\ arg.kind = "values"
    /\ out = NoArg
    /\ out' = [kind |-> "texts",
               walked |-> Replaced(arg.v),
               v |-> jsonStringifyDeterministically(arg.v),
               w |-> jsonStringifyDeterministically(arg.w)]
    /\ UNCHANGED <<serdes, responses, arrays, mode, ready, rmPending, instances, dirExists, disk, memo, mem,
                   clock, startDisk, calls, arg>>

NextCanonical == ApplyJsonStringifyDeterministically

\* jsonStringifyDeterministically on objects with keys in every order
SpecCanonical == InitCanonical /\ [][NextCanonical]_vars

\* the longest body given to the codec
MaxBodyLen == 2

\* bytes of the bodies: space, '1', 'a', the two bytes of U+00E9, and a byte
\* that no UTF-8 text holds
BodyBytes == {32, 49, 97, 195, 169, 255}

\* the bodies given to the codec
BodyInputs == SeqsUpTo(BodyBytes, MaxBodyLen)

\* the Headers objects given to the codec: none, a single header, a repeated
\* header, a single and a repeated set-cookie, repeated headers of both kinds,
\* a header whose name is that of an accessor of Object.prototype
HeaderShapes ==
    {NoHeaders,
     [n \in {"a"} |-> <<"1">>],
     [n \in {"a"} |-> <<"1", "2">>],
     [n \in {"set-cookie"} |-> <<"a=1">>],
     [n \in {"set-cookie"} |-> <<"a=1", "b=2">>],
     [n \in {"a", "set-cookie"} |-> IF n = "a" THEN <<"1", "2">> ELSE <<"a=1", "b=2">>],
     [n \in {"__proto__"} |-> <<"1">>]}

\* new Response(body, {status, statusText, headers})
ResponseInputs ==
    {[status |-> st[1], statusText |-> st[2], headers |-> h, body |-> b, url |-> ""] :
        st \in {<<200, "OK">>, <<234, "xyz">>}, h \in HeaderShapes, b \in BodyInputs}

\* what a Headers object shows: entries() yields a name once with its values
\* joined by ", ", and set-cookie once per value (as getSetCookie() does)
HeadersView(headers) ==
    [n \in DOMAIN headers |->
        IF n = "set-cookie" THEN headers[n] ELSE <<JoinValues(headers[n])>>]

\* the bytes that bytes() of a response gives: none for a null body
bytes(res) == IF res.body = NullBody THEN <<>> ELSE res.body.data

InitCodec ==
    /\ InitQuiet
    /\ arg \in {[kind |-> "response", v |-> r] : r \in ResponseInputs}

\* deserializeResponse(await serializeResponse(res))
ApplySerializeThenDeserialize ==
    /\ arg.kind = "response"
    /\ out = NoArg
    /\ out' = [kind |-> "response",
               serialized |-> serializeResponse(arg.v),
               v |-> deserializeResponse(serializeResponse(arg.v), FALSE)]
    /\ UNCHANGED <<serdes, responses, arrays, mode, ready, rmPending, instances, dirExists, disk, memo, mem,
                   clock, startDisk, calls, arg>>

NextCodec == ApplySerializeThenDeserialize

\* the codec on responses of every body and header shape
SpecCodec == InitCodec /\ [][NextCodec]_vars

\* the most query parameters of a message given to the sanitizer
MaxMessageParams == 2

\* the URLs of the messages: with or without credentials, with parameters
\* that the pattern blocks (auth, pass) and one that it does not (a)
MessageUrls ==
    {Url(u, pw, "example.com", "/", q) :
        u \in {"", "user"}, pw \in {"", "pw"},
        q \in SeqsUpTo({"a", "auth", "pass"} \X {"1"}, MaxMessageParams)}

\* the SerializedHeaders of the messages: any of the model's names, each with
\* a string, set-cookie with an array
MessageHeaders ==
    {[n \in names |-> IF n = "set-cookie" THEN [a |-> <<"a=1", "b=2">>]
                      ELSE [s |-> "x"]] : names \in SUBSET HeaderNames}

\* the SerializedRequest and SerializedResponse objects given to the sanitizer
MessageInputs ==
    {[kind |-> "request",
      v |-> [method |-> "POST", url |-> u, headers |-> h,
             body |-> [kind |-> "text", data |-> <<97>>]]] :
        u \in MessageUrls, h \in MessageHeaders}
    \cup
    {[kind |-> "response",
      v |-> [status |-> 234, statusText |-> "xyz", url |-> u, headers |-> h,
             body |-> [kind |-> "text", data |-> <<97>>]]] :
        u \in {Url("user", "pw", "example.com", "/", << <<"auth", "1">> >>)},
        h \in MessageHeaders}

\* sanitizer.sanitizeRequest(req) or sanitizer.sanitizeResponse(res, req)
sanitize(kind, message) ==
    IF kind = "request" THEN sanitizeRequest(message)
    ELSE sanitizeResponse(message, message)

InitMessages ==
    /\ InitQuiet
    /\ arg \in MessageInputs

\* the sanitizer on a message
ApplySanitize ==
    /\ arg.kind \in {"request", "response"}
    /\ out = NoArg
    /\ out' = [kind |-> "once", v |-> sanitize(arg.kind, arg.v)]
    /\ UNCHANGED <<serdes, responses, arrays, mode, ready, rmPending, instances, dirExists, disk, memo, mem,
                   clock, startDisk, calls, arg>>

\* the sanitizer on the message that it has given
ApplySanitizeAgain ==
    /\ out.kind = "once"
    /\ out' = [kind |-> "twice", once |-> out.v, v |-> sanitize(arg.kind, out.v)]
    /\ UNCHANGED <<serdes, responses, arrays, mode, ready, rmPending, instances, dirExists, disk, memo, mem,
                   clock, startDisk, calls, arg>>

NextMessages == ApplySanitize \/ ApplySanitizeAgain

\* the sanitizer on serialized requests and responses, once and again
SpecMessages == InitMessages /\ [][NextMessages]_vars

-----------------------------------------------------------------------------
(* MockResponse.  urlMap is a WeakMap from the object to its URL: an object  *)
(* of the model carries its own entry.                                      *)

\* number of MockResponse objects a test makes, clones included
MaxResponses == 3

\* no entry in urlMap
NoUrl == [ok |-> FALSE]

\* the values a test assigns to url: none, and URLs with and without a path
UrlValues == {"", "https://example.com", "https://example.com/1"}

\* new URL(val).href: a URL without a path gets the path "/"
HrefOfValue(val) == IF val = "https://example.com" THEN "https://example.com/" ELSE val

\* get url(): urlMap.get(this) ?? ''
getUrl(res) == IF res.urlMap.ok THEN res.urlMap.v ELSE ""

\* set url(val): urlMap.set(this, val ? new URL(val).href : '')
SetUrlOf(res, val) ==
    [res EXCEPT !.urlMap = [ok |-> TRUE, v |-> IF val # "" THEN HrefOfValue(val) ELSE ""]]

\* what Response.prototype.clone gives: a Response of the same body, whose
\* url getter finds no entry.  origin is the object that was cloned (0 for an
\* object made by new), assigned the value last assigned to url by the test,
\* text what text() has given.
ResponseClone(res, origin) ==
    [urlMap |-> NoUrl, body |-> res.body, bodyUsed |-> FALSE, origin |-> origin,
     assigned |-> [ok |-> FALSE], text |-> [ok |-> FALSE]]

\* a clone() that leaves the url of the new object unset
CloneWithoutUrl(res, origin) == ResponseClone(res, origin)

\* MockResponse.prototype.clone: super.clone(), the prototype, cloned.url = this.url ?? ''
CloneOf(res, origin) == SetUrlOf(ResponseClone(res, origin), getUrl(res))

\* new MockResponse(body)
NewMockResponse(body) ==
    /\ Len(responses) < MaxResponses
    /\ responses' = Append(responses,
           [urlMap |-> NoUrl, body |-> body, bodyUsed |-> FALSE, origin |-> 0,
            assigned |-> [ok |-> FALSE], text |-> [ok |-> FALSE]])
    /\ UNCHANGED <<serdes, arrays, mode, ready, rmPending, instances, dirExists, disk, memo, mem,
                   clock, startDisk, calls, arg, out>>

\* res.url = val
SetUrl(i, val) ==
    /\ responses' = [responses EXCEPT ![i] = [SetUrlOf(@, val) EXCEPT !.assigned = [ok |-> TRUE, v |-> val]]]
    /\ UNCHANGED <<serdes, arrays, mode, ready, rmPending, instances, dirExists, disk, memo, mem,
                   clock, startDisk, calls, arg, out>>

\* res.clone(): Response.prototype.clone throws when the body has been used
Clone(i) ==
    /\ Len(responses) < MaxResponses
    /\ ~responses[i].bodyUsed
    /\ responses' = Append(responses, CloneOf(responses[i], i))
    /\ UNCHANGED <<serdes, arrays, mode, ready, rmPending, instances, dirExists, disk, memo, mem,
                   clock, startDisk, calls, arg, out>>

\* await res.text(): rejects when the body has been used
Text(i) ==
    /\ ~responses[i].bodyUsed
    /\ responses' = [responses EXCEPT ![i].bodyUsed = TRUE,
                                      ![i].text = [ok |-> TRUE, v |-> responses[i].body]]
    /\ UNCHANGED <<serdes, arrays, mode, ready, rmPending, instances, dirExists, disk, memo, mem,
                   clock, startDisk, calls, arg, out>>

InitMockResponse ==
    /\ InitQuiet
    /\ arg = NoArg

NextMockResponse ==
    \/ NewMockResponse(<<97>>)
    \/ \E i \in 1..Len(responses) :
          \/ \E val \in UrlValues : SetUrl(i, val)
          \/ Clone(i)
          \/ Text(i)

\* a test that makes MockResponse objects, assigns their url, clones and reads them
SpecMockResponse == InitMockResponse /\ [][NextMockResponse]_vars

-----------------------------------------------------------------------------
(* The constructor of HttpSaver on its own: options is the object that the  *)
(* caller passes, a function from the names of the options given to their   *)
(* values.                                                                  *)

\* defaultOptions; jsonSpace is the tab character, written as its code 9
defaultOptions ==
    [mode |-> "ensure", dirPath |-> "_fixtures/responses", sanitizer |-> "default",
     jsonSpace |-> 9]

\* {...defaultOptions, ...options}
Spread(defaults, options) ==
    [k \in DOMAIN defaults \cup DOMAIN options |->
        IF k \in DOMAIN options THEN options[k] ELSE defaults[k]]

\* the options object with the given values; "unset" and -1 leave an option out
OptionsOf(m, d, sz, j) ==
    [k \in {n \in {"mode", "dirPath", "sanitizer", "jsonSpace"} :
               \/ n = "mode" /\ m # "unset"
               \/ n = "dirPath" /\ d # "unset"
               \/ n = "sanitizer" /\ sz # "unset"
               \/ n = "jsonSpace" /\ j # -1} |->
        CASE k = "mode" -> m
          [] k = "dirPath" -> d
          [] k = "sanitizer" -> sz
          [] OTHER -> j]

\* what callers pass to new HttpSaver: nothing, or any of the options, with
\* an empty or a non-empty dirPath
OptionsInputs ==
    {OptionsOf(m, d, sz, j) :
        m \in Modes \cup {"unset"}, d \in {"", "dir", "unset"},
        sz \in {"custom", "unset"}, j \in {-1, 0, 2}}

\* a constructor that starts the deletion before it looks at dirPath
HttpSaverDeletingFirst(options) ==
    LET opts == Spread(defaultOptions, options)
    IN  IF opts.dirPath = ""
        THEN [kind |-> "thrown", error |-> "AssertionError",
              rmStarted |-> ConstructorStartsRm(opts.mode)]
        ELSE [kind |-> "instance", options |-> opts,
              rmStarted |-> ConstructorStartsRm(opts.mode)]

\* new HttpSaver(options): the assertion on dirPath comes before rm is called
HttpSaver(options) ==
    LET opts == Spread(defaultOptions, options)
    IN  IF opts.dirPath = ""
        THEN [kind |-> "thrown", error |-> "AssertionError", rmStarted |-> FALSE]
        ELSE [kind |-> "instance", options |-> opts,
              rmStarted |-> ConstructorStartsRm(opts.mode)]

InitConstructor ==
    /\ InitQuiet
    /\ arg \in {[kind |-> "options", v |-> o] : o \in OptionsInputs}

\* new HttpSaver(options)
ApplyConstructor ==
    /\ arg.kind = "options"
    /\ out = NoArg
    /\ out' = HttpSaver(arg.v)
    /\ UNCHANGED <<serdes, responses, arrays, mode, ready, rmPending, instances, dirExists, disk,
                   memo, mem, clock, startDisk, calls, arg>>

NextConstructor == ApplyConstructor

\* the constructor on every choice of options
SpecConstructor == InitConstructor /\ [][NextConstructor]_vars

-----------------------------------------------------------------------------
(* Properties                                                              *)

Started(c) == calls[c].pc # "idle"
Done(c) == calls[c].pc = "done"
Responded(c) == Done(c) /\ calls[c].outcome.kind = "response"

\* c is the first call its instance gets for its request
FirstCall(c) ==
    /\ Started(c)
    /\ \A d \in CallIds :
          d < c => calls[d].input # calls[c].input \/ calls[d].inst # calls[c].inst

\* d is a call for the request of c, made after c completed
LaterCall(c, d) ==
    /\ Started(d)
    /\ calls[d].input = calls[c].input
    /\ c \in calls[d].after

\* no other call for the request of c was made before c completed
Unrivalled(c) ==
    \A d \in CallIds \ {c} :
        Started(d) /\ calls[d].input = calls[c].input => c \in calls[d].after

SameResponse(a, b) ==
    /\ a.status = b.status
    /\ a.statusText = b.statusText
    /\ a.url = b.url
    /\ a.body = b.body

\* what C1 says of a first call c that has completed
EnsureReplays(c) ==
    /\ Responded(c)
    /\ calls[c].io.fetch = 1
    /\ calls[c].io.writeFile = 1
    /\ \A d \in CallIds :
          LaterCall(c, d) =>
              /\ calls[d].io.fetch = 0
              /\ Done(d) => /\ Responded(d)
                            /\ SameResponse(calls[d].outcome.res, calls[c].outcome.res)

\* C1, as stated: in ensure mode on an empty cache directory, the first call
\* for a request makes one live call and one write, and every call for that
\* request made after it completed makes no live call and returns the same
\* status, statusText, url and body.
C1_FirstCallThenReplay ==
    \A c \in CallIds : FirstCall(c) /\ Done(c) => EnsureReplays(c)

\* C1, for a first call that no other call for the request overlaps: in ensure
\* mode on an empty cache directory, a first call for a request that completes
\* before any other call for that request is made makes one live call and one
\* write, and every later call for that request makes no live call and
\* returns the same status, statusText, url and body.
C1_UnrivalledFirstCallThenReplay ==
    \A c \in CallIds : FirstCall(c) /\ Done(c) /\ Unrivalled(c) => EnsureReplays(c)

\* a first call and two later calls for its request have all returned
C1_Witness ==
    /\ FirstCall(1) /\ Responded(1) /\ Unrivalled(1)
    /\ LaterCall(1, 2) /\ Responded(2)
    /\ LaterCall(1, 3) /\ Responded(3) /\ 2 \notin calls[3].after

\* C2: in readOnly mode a call whose key has no record in the cache document
\* fails with CacheMissError, and no call makes a live call, a mkdir or a
\* write: the cache directory stays as it was.
C2_ReadOnlyMissesAndTouchesNothing ==
    \A c \in CallIds :
        calls[c].mode = "readOnly" =>
            /\ calls[c].io.fetch = 0
            /\ calls[c].io.mkdir = 0
            /\ calls[c].io.writeFile = 0
            /\ disk = startDisk
            /\ Done(c) /\ getJsonDataFromFile(disk[FileOf(calls[c].input)]).ok
                       /\ KeyOf(calls[c].input) \notin DOMAIN LoadedDoc(disk[FileOf(calls[c].input)])
                  => calls[c].outcome = Failure("CacheMissError")

\* a readOnly call has missed after another readOnly call was replayed
C2_Witness ==
    /\ calls[1].mode = "readOnly" /\ Responded(1)
    /\ calls[2].mode = "readOnly" /\ Done(2)
    /\ calls[2].outcome = Failure("CacheMissError")

\* the record the cache file holds for the request of call c
StoredRecord(c) ==
    LoadedDoc(disk[FileOf(calls[c].input)])[KeyOf(calls[c].input)]

\* every call other than d completed before d was made
LastCall(d) == \A e \in CallIds \ {d} : Started(e) => e \in calls[d].after

\* C3: in overwrite mode every call makes a live call, a record for its key
\* existing or not, and replaces the record at its key: when calls are made
\* one after the other, each has made one live call and the cache file holds
\* the response of the last one.
C3_OverwriteAlwaysFetchesAndReplaces ==
    \A d \in CallIds :
        calls[d].mode = "overwrite" =>
            /\ calls[d].io.fetch = 1
            /\ Responded(d) /\ LastCall(d) =>
                  /\ KeyOf(calls[d].input) \in DOMAIN LoadedDoc(disk[FileOf(calls[d].input)])
                  /\ StoredRecord(d).response =
                        sanitizeResponse(serializeResponse(calls[d].res),
                                         serializeRequest(Requests[calls[d].input]))

\* two overwrite calls for a request that had a record, one after the other,
\* with different answers of the network
C3_Witness ==
    /\ KeyOf("Ra") \in DOMAIN LoadedDoc(startDisk[FileOf("Ra")])
    /\ calls[1].mode = "overwrite" /\ calls[1].input = "Ra" /\ Responded(1)
    /\ calls[2].mode = "overwrite" /\ LaterCall(1, 2) /\ Responded(2)
    /\ calls[1].io.fetch = 1 /\ calls[2].io.fetch = 1
    /\ calls[1].res # calls[2].res

\* c was replayed a record that no call of its instance stored
ReplayedFromBefore(c) ==
    /\ Responded(c)
    /\ calls[c].io.fetch = 0
    /\ \A d \in CallIds :
          calls[d].inst = calls[c].inst /\ calls[d].input = calls[c].input
              => calls[d].io.writeFile = 0

\* C4: in reset mode no call does anything before the deletion of the cache
\* directory has completed, and the instance starts from an empty cache whatever
\* was cached before it was constructed: the first call it gets for a request,
\* when no other call for the request overlaps it, misses and makes a live
\* call, and no call is replayed a record that the instance did not store.
C4_ResetStartsFromEmptyCache ==
    \A c \in CallIds :
        /\ Started(c) /\ calls[c].inst = instances /\ rmPending => calls[c].pc = "gate"
        /\ calls[c].mode = "reset" => ~ReplayedFromBefore(c)
        /\ calls[c].mode = "reset" /\ FirstCall(c) /\ Unrivalled(c)
                /\ calls[c].pc \in {"owWait", "writeWait", "done"}
              => calls[c].io.fetch = 1

\* C5: the URL the sanitizer gives has no password and no query parameter
\* whose key matches the block-list pattern, whatever the URL it is given.
C5_SanitizedUrlHasNoSecret ==
    out.kind = "url" =>
        /\ out.v.password = ""
        /\ \A i \in 1..Len(out.v.params) : ~blockedQueryParams(out.v.params[i][1])

HeaderNamesAllowed(headers) ==
    \A n \in DOMAIN headers : toLowerCase(n) \in allowedHeaders

\* a URL as sanitization is to leave it: no password, no blocked query parameter
UrlSanitized(url) ==
    /\ url.password = ""
    /\ \A i \in 1..Len(url.params) : ~blockedQueryParams(url.params[i][1])

\* a record whose request and response are sanitized
RecordSanitized(record) ==
    /\ HeaderNamesAllowed(record.request.headers)
    /\ HeaderNamesAllowed(record.response.headers)
    /\ UrlSanitized(record.request.url)

DocSanitized(content) ==
    \A k \in DOMAIN LoadedDoc(content) : RecordSanitized(LoadedDoc(content)[k])

\* only allowed header names are in the records of the cache files
HeadersOfRecordsAllowed ==
    \A f \in FileNames :
        \A k \in DOMAIN LoadedDoc(disk[f]) :
            /\ HeaderNamesAllowed(LoadedDoc(disk[f])[k].request.headers)
            /\ HeaderNamesAllowed(LoadedDoc(disk[f])[k].response.headers)

\* C6: in every mode, every record of every cache file, and of every text on
\* its way to a cache file, has a sanitized request and a sanitized response:
\* header names of the allow-list only, and a request URL as sanitization is
\* to leave it; no unsanitized request is written.
C6_PersistedRecordsAreSanitized ==
    /\ \A f \in FileNames : DocSanitized(disk[f])
    /\ \A c \in CallIds : DocSanitized(calls[c].text)

\* C7: in every mode, a call whose init carries a signal that is already
\* aborted fails with the abort reason of the signal, and issues no live call
\* and no read, mkdir or write of the file system.
C7_AbortedAtCallFailsBeforeIo ==
    \A c \in CallIds :
        calls[c].sig = "init" /\ calls[c].pre =>
            /\ calls[c].pc \in {"gate", "done"}
            /\ calls[c].io = NoIo
            /\ Done(c) => calls[c].outcome = Failure("AbortError")

\* a call with an aborted signal has failed in ensure mode, with a record for
\* its request in the cache file
C7_Witness ==
    \E c \in SignalCallIds :
        /\ calls[c].sig = "init" /\ calls[c].pre /\ Done(c)
        /\ calls[c].outcome = Failure("AbortError")
        /\ mode = "ensure"
        /\ KeyOf(calls[c].input) \in DOMAIN LoadedDoc(disk[FileOf(calls[c].input)])

\* the test reads the body of the response of c, its signal being aborted
ReadsBodyAfterAbort(c) ==
    /\ Responded(c)
    /\ calls[c].sig = "init"
    /\ calls[c].aborted
    /\ calls[c].body = "unread"
    /\ calls'[c].body \notin {"unread", "cancelled"}

\* C8, as stated: when the signal of a call that returned a response is aborted
\* before the body of the response is read, the read of the body fails with
\* the abort reason.
C8_ReadAfterAbortFails ==
    [][\A c \in CallIds : ReadsBodyAfterAbort(c) => calls'[c].body = "errored"]_vars

\* C8, for a response that has a body: when the signal of a call that returned a
\* response with a non-empty body is aborted before the body is read, the read
\* of the body fails with the abort reason.
C8_ReadOfBodyAfterAbortFails ==
    [][\A c \in CallIds :
          ReadsBodyAfterAbort(c) /\ calls[c].outcome.res.body # NullBody
              => calls'[c].body = "errored"]_vars

\* the read of a non-empty body has failed: the signal was aborted after the
\* call returned, a call that was not made with an aborted signal
C8_Witness ==
    \E c \in SignalCallIds :
        /\ Responded(c) /\ ~calls[c].pre /\ calls[c].aborted
        /\ calls[c].outcome.res.body # NullBody
        /\ calls[c].body = "errored"

\* C9: deserializeResponse, given a signal that is already aborted, gives no
\* response: no call whose signal is aborted returns a response.
C9_AbortedSignalGivesNoResponse ==
    [][\A c \in CallIds :
          calls[c].sig = "init" /\ calls[c].aborted /\ ~Done(c) => ~Responded(c)']_vars

\* C10: aborting the signal of a call after the body of its response was read
\* to the end, or was cancelled, changes nothing of the call: the response it
\* returned and the state of the body stay as they were.
C10_AbortAfterBodyConsumedChangesNothing ==
    [][\A c \in CallIds :
          calls[c].body \in {"read", "cancelled"} /\ ~calls[c].aborted /\ calls'[c].aborted
              => /\ calls'[c].body = calls[c].body
                 /\ calls'[c].outcome = calls[c].outcome
                 /\ calls'[c].pc = calls[c].pc]_vars

\* the signal was aborted after the guarded body was read to the end
C10_Witness ==
    \E c \in SignalCallIds :
        /\ Responded(c) /\ calls[c].outcome.res.guarded
        /\ calls[c].body = "read"
        /\ calls[c].aborted

\* the lookup of call c's cache document fails with an error that is no CacheMiss
LookupFails(c) == ~getJsonDataFromFile(disk[FileOf(calls[c].input)]).ok

\* C11: in ensure and reset mode a call whose lookup fails with another error
\* than CacheMissError (the cache file is no JSON object) makes no live call,
\* no mkdir and no write, leaves the cache directory as it was, and ends with
\* that error.
C11_OnlyCacheMissFallsThrough ==
    \A c \in CallIds :
        calls[c].mode \in {"ensure", "reset"} /\ Started(c) /\ LookupFails(c) =>
            /\ calls[c].io.fetch = 0
            /\ calls[c].io.mkdir = 0
            /\ calls[c].io.writeFile = 0
            /\ disk[FileOf(calls[c].input)] = startDisk[FileOf(calls[c].input)]
            /\ Done(c) =>
                  calls[c].outcome =
                      Failure(getJsonDataFromFile(disk[FileOf(calls[c].input)]).error)

\* an ensure-mode call on a corrupt cache file has ended with the SyntaxError
\* of the load, having read the file
C11_Witness ==
    \E c \in CallIds :
        /\ calls[c].mode = "ensure" /\ Done(c) /\ LookupFails(c)
        /\ calls[c].outcome = Failure("SyntaxError")
        /\ calls[c].io = [NoIo EXCEPT !.readFile = 1]
        /\ memo[FileOf(calls[c].input)] = "none"

\* no write to file f and no deletion of the directory is under way
Settled(f) ==
    /\ ~rmPending
    /\ \A c \in CallIds : FileOf(calls[c].input) = f => calls[c].pc # "writeWait"

\* C12: the memoized read never masks a later write or deletion: once the
\* writes to a path and the deletion of the directory have completed, what a
\* load of the path yields (the memo entry, when there is one) is the
\* document that the path holds.
C12_MemoReflectsLastWrite ==
    \A f \in FileNames :
        Settled(f) /\ memo[f] = "loaded" => mem[f] = LoadedDoc(disk[f])

\* calls c and d, for different keys of one cache document, have both made a
\* live call, written the document and returned
BothRecorded(c, d) ==
    /\ c # d /\ Responded(c) /\ Responded(d)
    /\ FileOf(calls[c].input) = FileOf(calls[d].input)
    /\ KeyOf(calls[c].input) # KeyOf(calls[d].input)
    /\ calls[c].io.writeFile = 1 /\ calls[d].io.writeFile = 1

\* the persisted document lacks the record of call c
Lost(c) == KeyOf(calls[c].input) \notin DOMAIN LoadedDoc(disk[FileOf(calls[c].input)])

\* C13: concurrent misses for different keys of one cache document can leave a
\* persisted document that lacks the record of one of them, and only in this
\* way: the calls mutate the one memoized document, so a call that upserts
\* after another has the other's record in its text, and the record of a call
\* that has written and returned is lost exactly when the text that was saved
\* last is that of another call which upserted before it.
C13_LaterSaveDiscardsOtherRecord ==
    \A c \in CallIds :
        Responded(c) /\ calls[c].io.writeFile = 1 /\ Lost(c) =>
            \E e \in CallIds \ {c} :
                /\ FileOf(calls[e].input) = FileOf(calls[c].input)
                /\ calls[e].io.writeFile = 1
                /\ disk[FileOf(calls[c].input)] = calls[e].text
                /\ KeyOf(calls[c].input) \notin DOMAIN calls[e].text.doc
                /\ KeyOf(calls[e].input) \in DOMAIN calls[c].text.doc
                /\ ~Lost(e)

\* both calls have returned their responses and the record of one of them is
\* not in the persisted document
C13_Witness ==
    \E c, d \in CallIds : BothRecorded(c, d) /\ Lost(c) /\ ~Lost(d)

\* the texts that the calls have handed to writeFile
SavedTexts == {calls[d].text : d \in {e \in CallIds : calls[e].io.writeFile > 0}}

\* call c never was given a signal, or its signal has not been triggered
NotCancelled(c) == calls[c].sig = "none" \/ ~calls[c].aborted

\* C14: cancellation is per call.  A call fails with AbortError only when its
\* own signal was triggered, and a call without a triggered signal is returned
\* a response that no signal guards when it returns one; the step that
\* triggers the signal of one call changes no other call, no cache file and
\* no loaded document; and each cache file is at all times absent, as it was
\* at the start, or the complete text that one call handed to writeFile.
C14_CancellationIsPerCall ==
    /\ [](\A c \in CallIds :
            /\ Done(c) /\ NotCancelled(c) => calls[c].outcome # Failure("AbortError")
            /\ Responded(c) /\ calls[c].sig = "none" => ~calls[c].outcome.res.guarded)
    /\ [](\A f \in FileNames : disk[f] \in {Absent, startDisk[f]} \cup SavedTexts)
    /\ [][\A c \in CallIds :
            calls[c].aborted' /\ ~calls[c].aborted =>
                /\ \A d \in CallIds \ {c} : calls'[d] = calls[d]
                /\ disk' = disk /\ mem' = mem /\ memo' = memo]_vars

\* the signal of a call was triggered while it and a call without signal were
\* both in flight: the one has failed with AbortError, the other has returned
\* its response and the cache file holds the text it saved
C14_Witness ==
    \E c \in SignalCallIds, d \in CallIds :
        /\ calls[d].sig = "none" /\ Responded(d) /\ calls[d].io.writeFile = 1
        /\ disk[FileOf(calls[d].input)] = calls[d].text
        /\ ~calls[c].pre /\ Done(c) /\ calls[c].outcome = Failure("AbortError")
        /\ d \notin calls[c].after /\ c \notin calls[d].after

\* the content of the file is the text of a JSON object
IsJsonObjectText(content) ==
    /\ content # Absent /\ content.kind = "text"
    /\ JsonParse(content.text).ok
    /\ "obj" \in DOMAIN JsonParse(content.text).v

\* C15: loading a cache document gives the empty document when the file does
\* not exist, rejects with the error of the read when the file cannot be read,
\* and on a file that holds a text succeeds exactly when the text is a JSON
\* object: a text that is no JSON (the empty text too) and a JSON string,
\* number, boolean, null or array make it fail.
C15_LoadOfCacheDocument ==
    arg.kind = "content" /\ out # NoArg =>
        /\ arg.v = Absent => out.v = [ok |-> TRUE, v |-> EmptyDoc]
        /\ arg.v # Absent /\ arg.v.kind = "unreadable" =>
               out.v = [ok |-> FALSE, error |-> arg.v.error]
        /\ arg.v # Absent /\ arg.v.kind = "text" =>
               /\ out.v.ok = IsJsonObjectText(arg.v)
               /\ out.v.ok => out.v.v = JsonParse(arg.v.text).v
               /\ ~out.v.ok => out.v.error \in {"SyntaxError", "AssertionError"}

\* call c went through the upsert: it handed the document to writeFile and is done
Upserted(c) == Done(c) /\ calls[c].io.writeFile = 1

\* C16: on every miss the upsert makes the directories that the cache file
\* is in before it writes, so that the write succeeds whatever the cache
\* directory held: a call that has gone through the upsert has returned a
\* response, the text it saved is the whole document with its record, and its
\* cache file holds a document as tab-indented JSON with a newline at the end.
C16_UpsertCreatesParentsAndWrites ==
    \A c \in CallIds :
        Upserted(c) =>
            /\ calls[c].io.mkdir = 1
            /\ Responded(c)
            /\ LET content == disk[FileOf(calls[c].input)]
               IN  /\ content # Absent /\ content.kind = "json"
                   /\ content.space = "\t" /\ content.newline
                   /\ KeyOf(calls[c].input) \in DOMAIN calls[c].text.doc

\* call c has made a live call and returned a response
Recorded(c) == Responded(c) /\ calls[c].io.fetch = 1 /\ calls[c].io.writeFile = 1

\* the deserialization of the record that call c stored
OwnRecordDeserialized(c) ==
    deserializeResponse(calls[c].text.doc[KeyOf(calls[c].input)].response,
                        calls[c].sig = "init")

\* d is a later call for the request of c that was replayed a record
LaterHit(c, d) == LaterCall(c, d) /\ Responded(d) /\ calls[d].io.fetch = 0

\* what C17 says of a call c that has made a live call and returned
MissReturnsStoredRecord(c) ==
    /\ calls[c].outcome.res = OwnRecordDeserialized(c)
    /\ \A d \in CallIds :
          LaterHit(c, d) =>
              /\ SameResponse(calls[c].outcome.res, calls[d].outcome.res)
              /\ calls[c].outcome.res.headers = calls[d].outcome.res.headers

\* C17, as stated: in ensure, overwrite and reset mode the response of a call
\* that made a live call is the deserialization of the sanitized record that
\* the call has just written, and has the status, statusText, url, headers
\* and body of the response that a later hit for the request returns.
C17_MissReturnsStoredRecord ==
    \A c \in CallIds : Recorded(c) => MissReturnsStoredRecord(c)

\* C17, for a call that no other call for the request overlaps: the response
\* of a call that made a live call and completed before any other call for
\* its request was made is the deserialization of the sanitized record that
\* the call has written, and has the status, statusText, url, headers and
\* body of the response that a later hit for the request returns.
C17_UnrivalledMissReturnsStoredRecord ==
    \A c \in CallIds : Recorded(c) /\ Unrivalled(c) => MissReturnsStoredRecord(c)

\* a call got a live answer whose body changes in the round trip through the
\* record, returned, and a later call for the request was replayed the record
C17_Witness ==
    \E c, d \in CallIds :
        /\ Recorded(c) /\ Unrivalled(c) /\ LaterHit(c, d)
        /\ calls[c].res.body = <<32, 49>>
        /\ calls[c].outcome.res.body = [kind |-> "bytes", data |-> <<49>>]
        /\ Cardinality(DOMAIN calls[c].res.headers) > Cardinality(DOMAIN calls[c].outcome.res.headers)

\* C18: two sanitized serialized requests that differ in method, URL, a header
\* value that the sanitizer kept, or body have different keys, and two that
\* have the same fields have the same key.
C18_KeysDistinguishRequests ==
    arg.kind = "requests" /\ out # NoArg =>
        (out.v[1].key = out.v[2].key)
            = (out.v[1].serializedRequest = out.v[2].serializedRequest)

\* C19: the file of a request is <host>.json, so that requests to one host,
\* whatever their path and query, have one cache document and requests to
\* different hosts have different ones.
C19_OneDocumentPerHost ==
    arg.kind = "requests" /\ out # NoArg =>
        /\ \A i \in 1..2 : out.v[i].fileName = <<out.v[i].serializedRequest.url.host>>
        /\ (out.v[1].fileName = out.v[2].fileName)
              = (out.v[1].serializedRequest.url.host = out.v[2].serializedRequest.url.host)

\* the keys of an object are in ascending order of their code units
KeysAscending(es) ==
    \A i, j \in 1..Len(es) : i < j => StringLess(es[i][1], es[j][1])

\* the keys of an object are in own-property order after a sort: the array
\* indices first, in ascending numeric order, then the other keys in ascending
\* order of their code units
KeysIndicesFirst(es) ==
    \A i, j \in 1..Len(es) :
        i < j =>
            IF IsArrayIndex(es[i][1]) /\ IsArrayIndex(es[j][1])
            THEN DigitsValue(es[i][1]) < DigitsValue(es[j][1])
            ELSE IF IsArrayIndex(es[j][1]) THEN FALSE
            ELSE IsArrayIndex(es[i][1]) \/ StringLess(es[i][1], es[j][1])

\* the objects of a value, at any depth
RECURSIVE ObjectsIn(_)
ObjectsIn(value) ==
    IF "obj" \in DOMAIN value
    THEN {value.obj} \cup UNION {ObjectsIn(value.obj[i][2]) : i \in 1..Len(value.obj)}
    ELSE IF "arr" \in DOMAIN value
    THEN UNION {ObjectsIn(value.arr[i]) : i \in 1..Len(value.arr)}
    ELSE {}

\* two values are equal up to the order of the keys of their objects, at any
\* depth: every member is there under its key and every array has its
\* elements in their order
RECURSIVE SameUpToKeyOrder(_, _)
SameUpToKeyOrder(a, b) ==
    IF "obj" \in DOMAIN a
    THEN /\ "obj" \in DOMAIN b
         /\ Len(a.obj) = Len(b.obj)
         /\ \A i \in 1..Len(a.obj) :
                \E j \in 1..Len(b.obj) :
                    /\ a.obj[i][1] = b.obj[j][1]
                    /\ SameUpToKeyOrder(a.obj[i][2], b.obj[j][2])
    ELSE IF "arr" \in DOMAIN a
    THEN /\ "arr" \in DOMAIN b
         /\ Len(a.arr) = Len(b.arr)
         /\ \A i \in 1..Len(a.arr) : SameUpToKeyOrder(a.arr[i], b.arr[i])
    ELSE a = b

\* the text is the JSON text of the value with its keys in another order
TextOfReordering(text, value) ==
    /\ JsonParse(text).ok
    /\ SameUpToKeyOrder(JsonParse(text).v, value)

\* C20, as stated: jsonStringifyDeterministically gives one text for two values
\* that are equal up to the order of the keys of their objects at any depth,
\* the text has the keys of every object in ascending ordinal order, and the
\* elements of every array in their original order.
C20_CanonicalTextKeysAscending ==
    arg.kind = "values" /\ out # NoArg =>
        /\ out.v = out.w
        /\ out.v = JsonStringify(out.walked) /\ TextOfReordering(out.v, arg.v)
        /\ \A es \in ObjectsIn(out.walked) : KeysAscending(es)

\* C20, with the order that the text has: jsonStringifyDeterministically gives
\* one text for two values that are equal up to the order of the keys of their
\* objects at any depth; in the text every object has its array-index keys
\* first, in ascending numeric order, and then its other keys in ascending
\* ordinal order, and every array has its elements in their original order.
C20_CanonicalTextKeysIndicesFirst ==
    arg.kind = "values" /\ out # NoArg =>
        /\ out.v = out.w
        /\ out.v = JsonStringify(out.walked) /\ TextOfReordering(out.v, arg.v)
        /\ \A es \in ObjectsIn(out.walked) : KeysIndicesFirst(es)

\* the text of {"10": [{b:1,a:2}, 3], "9": 1} and of a reordering of it: the
\* key 9 comes before the key 10 and the array keeps its order
C20_Witness ==
    /\ arg.kind = "values" /\ out # NoArg /\ arg.v # arg.w
    /\ arg.v = [obj |-> <<<<<<49, 48>>, [arr |-> <<ObjectBA, [num |-> 3]>>]>>,
                          <<<<57>>, [num |-> 1]>>>>]
    /\ out.v = CodePoints("{\"9\":1,\"10\":[{\"a\":2,\"b\":1},3]}")

\* C21: for every response of any body shape and header shape,
\* deserializeResponse(serializeResponse(x)) has the status, the statusText,
\* the headers and the body bytes of x.
C21_ResponseRoundTrip ==
    out.kind = "response" =>
        /\ out.v.status = arg.v.status
        /\ out.v.statusText = arg.v.statusText
        /\ HeadersView(out.v.headers) = HeadersView(arg.v.headers)
        /\ bytes(out.v) = arg.v.body

\* C22: sanitization is idempotent: sanitizing a request or a response that
\* the sanitizer has given changes nothing of it.
C22_SanitizeIsIdempotent ==
    out.kind = "twice" => out.v = out.once

\* C23: header sanitization keeps exactly the headers whose name, compared
\* without regard to case, is in the allow-list: each of them is in the output
\* under its name with its value unchanged, and no other header is, neither
\* authorization nor set-cookie.
C23_HeadersKeptAreTheAllowedOnes ==
    out.kind = "once" =>
        /\ \A n \in DOMAIN arg.v.headers :
              toLowerCase(n) \in allowedHeaders =>
                  /\ n \in DOMAIN out.v.headers
                  /\ out.v.headers[n] = arg.v.headers[n]
        /\ \A n \in DOMAIN out.v.headers :
              /\ n \in DOMAIN arg.v.headers
              /\ toLowerCase(n) \in allowedHeaders
        /\ "authorization" \notin DOMAIN out.v.headers
        /\ "set-cookie" \notin DOMAIN out.v.headers

\* a message with allowed names in both spellings, authorization and set-cookie
\* has been sanitized: the two allowed headers are what is left
C23_Witness ==
    /\ out.kind = "once"
    /\ {"Content-Type", "content-type", "authorization", "set-cookie"}
           \subseteq DOMAIN arg.v.headers
    /\ DOMAIN out.v.headers = {"Content-Type", "content-type"}
    /\ out.v.headers["Content-Type"] = [s |-> "x"]

\* the pairs of a query string whose key is k, in their order
ParamsOfKey(params, k) == SelectSeq(params, LAMBDA p : p[1] = k)

\* C24: URL sanitization sorts the query parameters by key and the sort is
\* stable: the keys of the output ascend, and the parameters of every key
\* that is not blocked are those of the input, with their values, in their
\* relative order.  The username is kept, the password is removed, host and
\* path are unchanged.
C24_StableSortKeepsParamsAndUsername ==
    out.kind = "url" =>
        /\ \A i, j \in 1..Len(out.v.params) :
              i < j => KeyRank[out.v.params[i][1]] <= KeyRank[out.v.params[j][1]]
        /\ \A k \in QueryKeys :
              ~blockedQueryParams(k) =>
                  ParamsOfKey(out.v.params, k) = ParamsOfKey(arg.v.params, k)
        /\ out.v.username = arg.v.username
        /\ out.v.password = ""
        /\ out.v.host = arg.v.host
        /\ out.v.pathname = arg.v.pathname

\* https://user:pw@example.com/?q=1&a=2&a=1 has been sanitized to
\* https://user@example.com/?a=2&a=1&q=1
C24_Witness ==
    /\ out.kind = "url"
    /\ arg.v.username = "user" /\ arg.v.password = "pw"
    /\ arg.v.params = << <<"q", "1">>, <<"a", "2">>, <<"a", "1">> >>
    /\ out.v.params = << <<"a", "2">>, <<"a", "1">>, <<"q", "1">> >>
    /\ out.v.username = "user"

\* the bytes are UTF-8: each is an ASCII byte, or the second of a pair of a
\* lead byte of a two-byte form and a continuation byte
RECURSIVE IsUtf8(_)
IsUtf8(b) ==
    \/ b = <<>>
    \/ b[1] < 128 /\ IsUtf8(Tail(b))
    \/ /\ Len(b) >= 2 /\ b[1] \in 194..223 /\ b[2] \in 128..191
       /\ IsUtf8(Tail(Tail(b)))

\* the bytes spell a JSON text.  With the bytes of BodyBytes the only JSON
\* texts are the numbers written with the digit 1, between optional spaces.
IsJsonBytes(b) ==
    \E i, j \in 1..Len(b) :
        /\ i <= j
        /\ \A n \in 1..Len(b) : b[n] = (IF n >= i /\ n <= j THEN 49 ELSE 32)

\* C25: serializeBody puts every byte sequence into exactly one shape: absent
\* exactly when there are no bytes; otherwise json when the bytes are UTF-8
\* and the text parses as JSON, text when they are UTF-8 and it does not, and
\* base64 exactly when the bytes are not UTF-8.
C25_BodyShapeClassification ==
    out.kind = "response" =>
        LET b == arg.v.body
            kind == out.serialized.body.kind
        IN  /\ kind \in {"null", "json", "text", "base64"}
            /\ kind = "null" <=> Len(b) = 0
            /\ kind = "base64" <=> ~IsUtf8(b)
            /\ kind = "json" <=> Len(b) > 0 /\ IsUtf8(b) /\ IsJsonBytes(b)
            /\ kind = "text" <=> Len(b) > 0 /\ IsUtf8(b) /\ ~IsJsonBytes(b)
            /\ kind = "base64" => out.serialized.body.data = encodeBase64(b)
            /\ kind = "json" => out.serialized.body.data = [num |-> DigitsValue(TrimLeft(TrimRight(b)))]

\* a body of the digit 1 and a space has been made a json body of the number 1
C25_Witness ==
    /\ out.kind = "response"
    /\ arg.v.body = <<49, 32>>
    /\ out.serialized.body = [kind |-> "json", data |-> [num |-> 1]]

\* the serialized form of the values of a header: a sequence for set-cookie
\* with several values, else one string of the values joined by ", "
SerializedValues(n, values) ==
    IF n = "set-cookie" /\ Len(values) > 1 THEN [a |-> values]
    ELSE [s |-> JoinValues(values)]

\* what C26 says of the header n of the response given to the codec
HeaderPreserved(n) ==
    /\ n \in DOMAIN out.serialized.headers
    /\ out.serialized.headers[n] = SerializedValues(n, arg.v.headers[n])
    /\ n \in DOMAIN out.v.headers
    /\ Len(out.v.headers[n]) =
          (IF "a" \in DOMAIN out.serialized.headers[n]
           THEN Len(out.serialized.headers[n].a) ELSE 1)
    /\ HeadersView(out.v.headers)[n] = HeadersView(arg.v.headers)[n]

\* C26: serializeHeaders gives a string for a name that the headers yield
\* once and a sequence, in encounter order, for a name they yield several
\* times; deserializeHeaders appends one occurrence per element and one for a
\* string; serializing and deserializing keeps the name and values of every
\* header.
C26_HeadersRoundTrip ==
    out.kind = "response" =>
        /\ \A n \in DOMAIN arg.v.headers : HeaderPreserved(n)
        /\ DOMAIN out.v.headers = DOMAIN arg.v.headers

\* the objects a test has made
ResponseIds == 1..Len(responses)

\* C27: the url of a replay response is the empty string until it is set;
\* after an assignment it is the href of the value assigned; a clone has the
\* url that its origin had when it was cloned, so the url is carried through
\* any number of successive clones; a step changes the url of no object but
\* the one it assigns to, so an assignment to a clone leaves the origin's url
\* alone; and the body of every object, clones included, is unread until that
\* object itself is read, and then gives the text of the body.
C27_UrlSettableAndCarriedByClone ==
    /\ [](\A i \in ResponseIds :
            /\ responses[i].origin = 0 /\ ~responses[i].assigned.ok =>
                  getUrl(responses[i]) = ""
            /\ responses[i].assigned.ok =>
                  getUrl(responses[i]) = HrefOfValue(responses[i].assigned.v)
            /\ responses[i].bodyUsed <=> responses[i].text.ok
            /\ responses[i].text.ok => responses[i].text.v = <<97>>)
    /\ [][/\ \A i \in ResponseIds :
                getUrl(responses'[i]) # getUrl(responses[i]) =>
                    /\ responses'[i].assigned # responses[i].assigned
                    /\ \A j \in ResponseIds \ {i} : responses'[j] = responses[j]
          /\ Len(responses') > Len(responses) =>
                LET new == responses'[Len(responses')]
                IN  new.origin # 0 =>
                        /\ getUrl(new) = getUrl(responses[new.origin])
                        /\ ~new.bodyUsed
                        /\ new.body = responses[new.origin].body]_vars

\* a response was given a url, cloned, and its clone cloned; the clone was
\* then given another url and read: the first response and the clone of the
\* clone still have the first url, and their bodies are unread
C27_Witness ==
    /\ Len(responses) = 3
    /\ responses[1].origin = 0 /\ responses[2].origin = 1 /\ responses[3].origin = 2
    /\ getUrl(responses[1]) = "https://example.com/1"
    /\ getUrl(responses[2]) = "https://example.com/"
    /\ ~responses[3].assigned.ok
    /\ getUrl(responses[3]) = "https://example.com/1"
    /\ responses[2].text = [ok |-> TRUE, v |-> <<97>>]
    /\ ~responses[1].bodyUsed /\ ~responses[3].bodyUsed

\* C28: an intercepted call never consumes the caller's own request: after
\* the call, in every mode, on hit or miss, whether the caller passed a URL,
\* a string or a Request object, the body of the caller's Request is unread.
C28_CallerRequestStaysUnread ==
    \A c \in CallIds : Done(c) => calls[c].inputBody # "taken"

\* the live call of c has failed and c has ended with its error
NetworkFailed(c) == Done(c) /\ calls[c].outcome = Failure("TypeError")

\* C29: when the live call fails in ensure, overwrite or reset mode, the
\* intercepted call fails with that same error, makes no second live call
\* and no write, and adds or changes no record: a call that has made its live
\* call and has ended without its response has the error of the network; the
\* step in which it fails changes no document in memory or on disk, and it
\* takes no step afterwards; and while no call has got a response, no
\* document in memory has a record that was not there at the start.
C29_NetworkErrorPropagates ==
    /\ [](\A c \in CallIds :
            /\ Done(c) /\ calls[c].io.fetch > 0 /\ ~calls[c].fetched =>
                  NetworkFailed(c)
            /\ NetworkFailed(c) =>
                  /\ calls[c].mode \in {"ensure", "overwrite", "reset"}
                  /\ calls[c].io.fetch = 1
                  /\ calls[c].io.writeFile = 0
                  /\ calls[c].text = Absent)
    /\ []((\A c \in CallIds : ~calls[c].fetched) =>
            \A f \in FileNames :
                /\ DOMAIN mem[f] \subseteq DOMAIN LoadedDoc(startDisk[f])
                /\ disk[f] \in {startDisk[f], Absent})
    /\ [][\A c \in CallIds :
            /\ NetworkFailed(c)' /\ ~NetworkFailed(c) => disk' = disk /\ mem' = mem
            /\ NetworkFailed(c) =>
                  /\ calls'[c].io = calls[c].io
                  /\ calls'[c].outcome = calls[c].outcome]_vars

\* an ensure-mode call for a request that is not in the cache has failed with
\* the error of its one live call, after the document was loaded: the document
\* in memory and the file are as they were
C29_Witness ==
    \E c \in CallIds :
        /\ NetworkFailed(c) /\ calls[c].mode = "ensure" /\ calls[c].input = "Rc"
        /\ calls[c].io = [NoIo EXCEPT !.fetch = 1, !.mkdir = 1, !.readFile = 1]
        /\ memo[FileOf("Rc")] = "loaded"
        /\ mem[FileOf("Rc")] = LoadedDoc(startDisk[FileOf("Rc")])
        /\ disk = startDisk
        /\ startDisk[FileOf("Rc")] # Absent

\* C30: constructing an HttpSaver with an empty dirPath fails in the
\* constructor, in every mode and before any deletion of the directory is
\* started; any other construction succeeds, and when no mode is given (with
\* no options at all, too) the mode is ensure.
C30_EmptyDirPathFailsFast ==
    out.kind \in {"thrown", "instance"} =>
        LET empty == "dirPath" \in DOMAIN arg.v /\ arg.v.dirPath = ""
        IN  /\ empty => out = [kind |-> "thrown", error |-> "AssertionError",
                                rmStarted |-> FALSE]
            /\ ~empty => out.kind = "instance"
            /\ out.kind = "instance" /\ "mode" \notin DOMAIN arg.v =>
                  out.options.mode = "ensure" /\ ~out.rmStarted
            /\ out.kind = "instance" /\ DOMAIN arg.v = {} =>
                  out.options = defaultOptions

\* new HttpSaver({mode: 'reset', dirPath: ''}) has thrown and no deletion was started
C30_Witness ==
    /\ arg.kind = "options"
    /\ arg.v = [mode |-> "reset", dirPath |-> ""]
    /\ out = [kind |-> "thrown", error |-> "AssertionError", rmStarted |-> FALSE]

\* call c is a hit: #read found a record at its key and returned it
Hit(c) ==
    /\ Responded(c)
    /\ calls[c].mode \in {"ensure", "reset", "readOnly"}
    /\ calls[c].io.writeFile = 0

\* C31: a call that hits in ensure, reset or readOnly mode is read-only: from
\* the readiness gate to its return it issues no live call, no mkdir and no
\* writeFile, and none of its steps changes a file, the directory or a document
\* in memory.
C31_HitIsReadOnly ==
    [][\A c \in CallIds :
          /\ calls[c].pc = "gate" /\ calls'[c].pc = "readWait"
                => disk' = disk /\ dirExists' = dirExists /\ mem' = mem
          /\ calls[c].pc = "readWait" /\ calls'[c].pc = "done"
             /\ calls'[c].outcome.kind = "response"
                => /\ calls'[c].mode \in {"ensure", "reset", "readOnly"}
                   /\ calls'[c].io.fetch = 0
                   /\ calls'[c].io.mkdir = 0
                   /\ calls'[c].io.writeFile = 0
                   /\ ~calls'[c].mkdirPending
                   /\ disk' = disk /\ dirExists' = dirExists /\ mem' = mem]_vars

\* a readOnly call and an ensure call have hit the record of an earlier run
C31_Witness ==
    /\ \E c \in CallIds :
          /\ Hit(c) /\ calls[c].io.fetch = 0
          /\ mode \in {"ensure", "readOnly"}
          /\ disk = startDisk
          /\ disk[FileOf(calls[c].input)] # Absent

\* content is a file that exists and does not hold the text of a JSON object
NotAnObjectText(content) ==
    /\ content # Absent
    /\ content.kind = "text"
    /\ LET data == JsonParse(content.text)
       IN  ~data.ok \/ "obj" \notin DOMAIN data.v

\* C32: while the file at the path of a call exists and does not hold a valid
\* JSON object, the call does not return a response, in any mode: the step that
\* ends the call ends it with an error, and the content of the file stays as it
\* is.
C32_CorruptDocumentFailsTheCall ==
    [][\A c \in CallIds :
          LET f == FileOf(calls[c].input)
          IN  calls[c].pc \notin {"idle", "gate"} /\ NotAnObjectText(disk[f])
                 => /\ disk'[f] = disk[f]
                    /\ calls'[c].pc = "done" => calls'[c].outcome.kind = "error"]_vars

\* the records of document a other than the one at key are in document b, unchanged
OthersKept(a, b, key) ==
    \A k \in DOMAIN a \ {key} : k \in DOMAIN b /\ b[k] = a[k]

\* call c stores its record in this step; it completes its write in this step
Upserts(c) == calls[c].pc = "owWait" /\ calls'[c].pc = "writeWait"
CompletesWrite(c) ==
    calls[c].pc = "writeWait" /\ calls'[c].pc = "done" /\ calls'[c].outcome.kind = "response"

\* C33 as stated: when a miss for key k completes, every record that the
\* in-memory document and the persisted file held under another key just
\* before is still there, unchanged.
C33_UpsertKeepsOtherRecords ==
    [][\A c \in CallIds :
          LET f == FileOf(calls[c].input)
              key == KeyOf(calls[c].input)
          IN  CompletesWrite(c)
                 => /\ OthersKept(mem[f], mem'[f], key)
                    /\ OthersKept(LoadedDoc(disk[f]), LoadedDoc(disk'[f]), key)]_vars

\* C33, amended: a miss for key k changes only the record at k in the
\* in-memory document, it touches no other document, and the file it leaves
\* holds unchanged every record that the document held under another key when
\* the call stored its own, as it was then; what another call stored after
\* that and wrote first is not in the file.
C33_UpsertKeepsRecordsItSaw ==
    [][\A c \in CallIds :
          LET f == FileOf(calls[c].input)
              key == KeyOf(calls[c].input)
          IN  /\ Upserts(c)
                 => /\ OthersKept(mem[f], mem'[f], key)
                    /\ DOMAIN mem'[f] = DOMAIN mem[f] \cup {key}
                    /\ OthersKept(mem[f], LoadedDoc(calls'[c].text), key)
                    /\ \A g \in FileNames \ {f} : mem'[g] = mem[g]
                    /\ disk' = disk
              /\ CompletesWrite(c)
                 => /\ mem' = mem
                    /\ OthersKept(LoadedDoc(calls[c].text), LoadedDoc(disk'[f]), key)
                    /\ \A g \in FileNames \ {f} : disk'[g] = disk[g]]_vars

\* a miss for Rc has completed on the document that held Ra's record of an
\* earlier run: the file holds both
C33_Witness ==
    \E c \in CallIds :
        /\ Responded(c) /\ calls[c].input = "Rc" /\ calls[c].io.writeFile = 1
        /\ LET doc == LoadedDoc(disk[FileOf("Rc")])
           IN  /\ KeyOf("Rc") \in DOMAIN doc
               /\ KeyOf("Ra") \in DOMAIN doc
               /\ doc[KeyOf("Ra")] = OldRecord
               /\ mem[FileOf("Rc")] = doc

\* the lookups of calls c and d for one request have both missed, and neither
\* call has stored its record
BothMissed(c, d) ==
    /\ c # d
    /\ calls[c].input = calls[d].input
    /\ calls[c].pc = "owWait" /\ calls[d].pc = "owWait"
    /\ calls[c].mode = "ensure" /\ calls[d].mode = "ensure"

\* call c has stored its record; the record it stored
HasStored(c) == calls[c].pc \in {"writeWait", "done"} /\ calls[c].io.writeFile = 1
OwnRecord(c) == calls[c].text.doc[KeyOf(calls[c].input)]

\* call c stored last among the calls for its request
StoredLast(c) ==
    /\ HasStored(c)
    /\ \A e \in CallIds :
          HasStored(e) /\ calls[e].input = calls[c].input
             => OwnRecord(e).lastSaved <= OwnRecord(c).lastSaved

\* calls c and d for one request have each made a live call: this stays so
\* once both have missed
BothFetched(c, d) ==
    /\ c # d
    /\ calls[c].input = calls[d].input
    /\ calls[c].io.fetch = 1 /\ calls[d].io.fetch = 1

\* what holds of two such calls from then on
NotDeduplicated(c, d) ==
    /\ Done(c) /\ Done(d)
          => /\ Responded(c) /\ Responded(d)
             /\ calls[c].io.writeFile = 1 /\ calls[d].io.writeFile = 1
             /\ OwnRecord(c).lastSaved # OwnRecord(d).lastSaved
    /\ \A e \in {c, d} :
          StoredLast(e) => mem[FileOf(calls[e].input)][KeyOf(calls[e].input)] = OwnRecord(e)

\* C34: when the lookups of two ensure-mode calls for the same uncached
\* request have both completed before either call has stored its record, each
\* call has issued a live call of its own, and from then on this stays so, each
\* call ends with a response after a writeFile of its own, and the record at
\* the key of the in-process document is the one of the call that stored last.
C34_NoInFlightDeduplication ==
    [][\A c, d \in CallIds :
          /\ BothMissed(c, d)' => BothFetched(c, d)'
          /\ BothFetched(c, d) => BothFetched(c, d)'
          /\ BothFetched(c, d)' => NotDeduplicated(c, d)']_vars

\* two calls for Ra have both made a live call and a write; the in-process
\* document holds the record of the one that stored last and the file holds
\* the record of the other, whose write completed last
C34_Witness ==
    \E c, d \in CallIds :
        /\ c # d /\ Responded(c) /\ Responded(d)
        /\ calls[c].io.fetch = 1 /\ calls[d].io.fetch = 1
        /\ calls[c].io.writeFile = 1 /\ calls[d].io.writeFile = 1
        /\ StoredLast(d)
        /\ mem[FileOf("Ra")][KeyOf("Ra")] = OwnRecord(d)
        /\ LoadedDoc(disk[FileOf("Ra")])[KeyOf("Ra")] = OwnRecord(c)
        /\ OwnRecord(c) # OwnRecord(d)

\* C35: every intercepted call gets past the readiness gate: a call that
\* awaits #ready eventually stops awaiting it, in every mode, whether the rm of
\* the constructor succeeds or fails.
C35_EveryCallPassesTheGate ==
    \A c \in 1..MaxReadyCalls : (calls[c].pc = "gate") ~> (calls[c].pc # "gate")

\* the miss of call c has failed on mkdir or writeFile
PersistFailed(c) ==
    Done(c) /\ calls[c].outcome = Failure("EACCES")

\* no record for the request of c came from the directory or from another call
NoOtherRecord(c) ==
    /\ KeyOf(calls[c].input) \notin DOMAIN LoadedDoc(startDisk[FileOf(calls[c].input)])
    /\ \A e \in CallIds \ {c} : calls[e].input = calls[c].input => ~HasStored(e)

\* C36: when mkdir or writeFile fails during a miss, the call fails and its
\* record is not in the cache: the in-process document has no record at the
\* key, and a later ensure-mode call for the request makes a live call again.
C36_FailedSaveLeavesNoRecord ==
    \A c \in CallIds :
        PersistFailed(c) /\ NoOtherRecord(c)
           => /\ KeyOf(calls[c].input) \notin DOMAIN mem[FileOf(calls[c].input)]
              /\ KeyOf(calls[c].input) \notin DOMAIN LoadedDoc(disk[FileOf(calls[c].input)])
              /\ \A d \in CallIds :
                    LaterCall(c, d) /\ Responded(d) /\ calls[d].mode = "ensure"
                       => calls[d].io.fetch = 1

\* no intercepted call is in flight, no operation of a call or of the
\* constructor is pending, and no write has failed
Quiet ==
    /\ ~rmPending
    /\ \A c \in CallIds :
          /\ calls[c].pc \in {"idle", "done"}
          /\ ~calls[c].mkdirPending
          /\ calls[c].io.writeFile = 1 => Responded(c)
    /\ \A f \in FileNames : memo[f] # "pending"

\* the calls that have written file f
Writers(f) == {c \in CallIds : Done(c) /\ FileOf(calls[c].input) = f /\ calls[c].io.writeFile = 1}

\* call e was the last of them to store its record in the in-process document
LastToStore(e, f) ==
    \A c \in Writers(f) : OwnRecord(c).lastSaved <= OwnRecord(e).lastSaved

C38_SignalOfInputRequestIsHonoured ==
    [][\A c \in CallIds :
          calls'[c].sig = "input" =>
              /\ calls'[c].pre =>
                    /\ calls'[c].pc \in {"gate", "done"}
                    /\ calls'[c].io = NoIo
                    /\ calls'[c].pc = "done" => calls'[c].outcome = Failure("AbortError")
              /\ /\ Responded(c) /\ calls[c].aborted /\ calls[c].body = "unread"
                 /\ calls'[c].body \notin {"unread", "cancelled"}
                 /\ calls[c].outcome.res.body # NullBody
                    => calls'[c].body = "errored"]_vars

\* the step is the dispatch of call c: the switch on options.mode
Dispatches(c) == calls[c].pc = "gate" /\ calls'[c].pc \in {"readWait", "owWait"}

\* C39: no step of a call changes options.mode, only the assignment by the
\* test does; each call takes the path of the mode that options.mode has when
\* the call is dispatched: it enters #overwrite in overwrite mode and #read in
\* the other modes, a readOnly call makes no live call, no mkdir and no write,
\* and an overwrite call makes a live call.
C39_ModeChangesOnlyByAssignment ==
    [][/\ mode' # mode => calls' = calls /\ disk' = disk /\ mem' = mem /\ memo' = memo
       /\ \A c \in CallIds :
             /\ Dispatches(c)
                   => /\ mode' = mode
                      /\ calls'[c].mode = mode
                      /\ calls'[c].pc = "owWait" <=> mode = "overwrite"
             /\ calls[c].mode # "none" => calls'[c].mode = calls[c].mode
             /\ calls'[c].mode = "readOnly"
                   => calls'[c].io.fetch = 0 /\ calls'[c].io.mkdir = 0
                      /\ calls'[c].io.writeFile = 0
             /\ calls'[c].mode = "overwrite" => calls'[c].io.fetch = 1]_vars

\* an instance made in overwrite mode on an empty directory has recorded Ra
\* with a live call; options.mode was then set to readOnly and the next call
\* for Ra was replayed without a live call
C39_Witness ==
    \E c, d \in CallIds :
        /\ \A f \in FileNames : startDisk[f] = Absent
        /\ Responded(c) /\ calls[c].mode = "overwrite" /\ calls[c].io.fetch = 1
        /\ LaterCall(c, d) /\ calls[d].input = "Ra"
        /\ Responded(d) /\ calls[d].mode = "readOnly" /\ calls[d].io.fetch = 0
        /\ mode = "readOnly"

====
